---- MODULE Spec2Model ----
\* Medication reminder back end: the cron tick (CronController.tick /
\* processTick), its in-process lease, and the LINE acknowledgment handler
\* (LineWebhookController.onText), over the DoseIntake, NotificationLog and
\* MedicationInventory tables.  One await in the source is one step here: a
\* step is the awaited call's result together with the synchronous code that
\* follows it up to the next await.
EXTENDS Integers, Sequences, FiniteSets, TLC

VARIABLES
  env,              \* process.env and the patient rows the behaviour is about
  clock,            \* Date.now(), in ms
  nAdv,             \* how often the clock was advanced
  running,          \* the lease: let running
  startedAt,        \* the lease: let startedAt
  tick,             \* the tick requests
  ack,              \* the acknowledgment events
  doseIntake,       \* table DoseIntake
  notificationLog,  \* table NotificationLog
  invActive,        \* table MedicationInventory: isActive per prescription
  response,         \* the latest response of the tick endpoint
  pushed,           \* the latest message the LINE push API accepted
  remindedAt,       \* per key, when the latest message before `pushed` was accepted
  replied,          \* the latest message the LINE reply API accepted
  calc,             \* a schedule and an evaluation of the window calculator on it
  lineCalls,        \* calls of the LINE message operations and what the caller got
  patient,          \* table Patient: lineUserId and recentActivatedPrescriptionId
  activate          \* the activate requests

vars == <<env, clock, nAdv, running, startedAt, tick, ack, doseIntake,
          notificationLog, invActive, response, pushed, remindedAt, replied, calc,
          lineCalls, patient, activate>>

\* ---------------------------------------------------------------- bounds
\* how many times the clock is advanced in one behaviour
MaxAdvances == 1
\* tick invocations (authorized or not) in one behaviour
MaxTicks == 2
\* acknowledgment events in one behaviour
MaxAcks == 1
\* tick invocations in a behaviour that also has acknowledgments
RaceTicks == 1
\* requests (tick runs and acknowledgments) being handled at the same time
MaxInFlight == 2
\* acknowledgment events in a behaviour without ticks
MaxAckOnly == 2
\* slots of a schedule given to the window calculator
MaxSlots == 2
\* calls of the LINE message operations in one behaviour
MaxCalls == 2
\* activate requests in one behaviour
MaxActivates == 2

\* ------------------------------------------------------- program constants
MAX_RUN_MS == 55000
REMIND_DEFAULT_MIN == 30
MsPerMinute == 60000
MinutesPerDay == 24 * 60
MsPerDay == MinutesPerDay * MsPerMinute

\* absent values: a null quantityTotal / endDate, a null next-slot time, an
\* undefined secret
null == -1
NoHHMM == <<>>
undefined == "undefined"

\* ------------------------------------------------------------ environment
\* clock steps: MAX_RUN_MS (the lease's staleness bound) and 30 min (the
\* cadence)
AdvanceSteps == {MAX_RUN_MS, REMIND_DEFAULT_MIN * MsPerMinute}

\* the instant the behaviour starts at: 00:00 UTC of day 10 of the model's
\* epoch, which is 07:00 local time in Asia/Bangkok
StartDay == 5 + 5
StartClock == StartDay * MsPerDay

\* the secret of a request as <<query secret, x-cron-secret header>>, and the
\* values of process.env.CRON_SECRET
Requests == {<<undefined, undefined>>, <<"", "">>, <<"wrong", "wrong">>,
             <<"s3cret", undefined>>, <<"wrong", "s3cret">>}
EnvSecrets == {undefined, "", "s3cret"}

\* UTC offset of the only zone the prescriptions use
TzOffsetMs(tz) == IF tz = "Asia/Bangkok" THEN 7 * 60 * MsPerMinute ELSE 0

\* ------------------------------------------------------------- the tables
\* Patient rows: all have a lineUserId; env.patients is the order in which
\* patient.findMany returns the ones the behaviour is about
PatientIds == {"p1", "p2", "p3", "p4", "p5"}
lineUserId ==
  [p \in PatientIds |->
     IF p = "p1" THEN "U1" ELSE IF p = "p2" THEN "U2" ELSE IF p = "p3" THEN "U3"
     ELSE IF p = "p4" THEN "U4" ELSE "U5"]
LineUserIds == {"U1", "U2", "U9"}

\* the Patient rows of the behaviours in which every patient is bound; ""
\* stands for a NULL column
BoundPatients ==
  [p \in PatientIds |->
     [lineUserId |-> lineUserId[p], recentActivatedPrescriptionId |-> ""]]

Rx == {"rx1", "rx2", "rx3", "rx4", "rx5", "rx6"}
RxOrder == <<"rx1", "rx2", "rx3", "rx4", "rx5", "rx6">>

MsPerHour == 60 * MsPerMinute

\* Prescription rows.  rx1 is a one-pill course; the others are unbounded.
\* rx4 is the prescription of one before-breakfast slot; rx5 has a bedtime
\* slot followed by a later one; rx6 starts at 01:00 local time of StartDay
\* and ends at 23:00 local time of the day after.
Prescription ==
  [rx \in Rx |->
     IF rx = "rx1" THEN
       [patientId |-> "p1", timezone |-> "Asia/Bangkok", quantityTotal |-> 1,
        startDate |-> (StartDay - 1) * MsPerDay, endDate |-> null,
        issueDate |-> null, createdAt |-> (StartDay - 1) * MsPerDay]
     ELSE IF rx = "rx2" THEN
       [patientId |-> "p1", timezone |-> "", quantityTotal |-> null,
        startDate |-> (StartDay - 1) * MsPerDay, endDate |-> null,
        issueDate |-> null, createdAt |-> (StartDay - 1) * MsPerDay]
     ELSE IF rx = "rx3" THEN
       [patientId |-> "p2", timezone |-> "Asia/Bangkok", quantityTotal |-> null,
        startDate |-> (StartDay - 1) * MsPerDay,
        endDate |-> (StartDay + 1) * MsPerDay,
        issueDate |-> null, createdAt |-> (StartDay - 1) * MsPerDay]
     ELSE IF rx = "rx4" THEN
       [patientId |-> "p3", timezone |-> "Asia/Bangkok", quantityTotal |-> null,
        startDate |-> (StartDay - 1) * MsPerDay, endDate |-> null,
        issueDate |-> null, createdAt |-> (StartDay - 1) * MsPerDay]
     ELSE IF rx = "rx5" THEN
       [patientId |-> "p4", timezone |-> "Asia/Bangkok", quantityTotal |-> null,
        startDate |-> (StartDay - 1) * MsPerDay, endDate |-> null,
        issueDate |-> null, createdAt |-> (StartDay - 1) * MsPerDay]
     ELSE
       [patientId |-> "p5", timezone |-> "Asia/Bangkok", quantityTotal |-> null,
        startDate |-> (StartDay - 1) * MsPerDay + 18 * MsPerHour,
        endDate |-> (StartDay + 1) * MsPerDay + 16 * MsPerHour,
        issueDate |-> (StartDay - 3) * MsPerDay,
        createdAt |-> (StartDay - 3) * MsPerDay]]

\* DoseSchedule rows: hhmm is the "HH:MM" text as the pair <<HH, MM>>
DoseSchedule ==
  [rx \in Rx |->
     IF rx = "rx1" THEN
       {[hhmm |-> <<7, 0>>, period |-> "BEFORE_BREAKFAST", pills |-> 1, isActive |-> TRUE],
        [hhmm |-> <<6, 0>>, period |-> "CUSTOM", pills |-> 1, isActive |-> FALSE]}
     ELSE IF rx = "rx2" THEN
       {[hhmm |-> <<8, 0>>, period |-> "BEFORE_LUNCH", pills |-> 1, isActive |-> TRUE],
        [hhmm |-> <<7, 0>>, period |-> "AFTER_BREAKFAST", pills |-> 2, isActive |-> TRUE]}
     ELSE IF rx = "rx3" THEN
       {[hhmm |-> <<7, 0>>, period |-> "AFTER_BREAKFAST", pills |-> 1, isActive |-> TRUE]}
     ELSE IF rx = "rx4" THEN
       {[hhmm |-> <<7, 0>>, period |-> "BEFORE_BREAKFAST", pills |-> 1, isActive |-> TRUE]}
     ELSE IF rx = "rx5" THEN
       {[hhmm |-> <<20, 0>>, period |-> "BEFORE_BED", pills |-> 2, isActive |-> TRUE],
        [hhmm |-> <<22, 0>>, period |-> "CUSTOM", pills |-> 1, isActive |-> TRUE]}
     ELSE
       {[hhmm |-> <<0, 0>>, period |-> "CUSTOM", pills |-> 1, isActive |-> TRUE]}]

\* ---------------------------------------------------------------- helpers
hhmmToMinutes(hhmm) == hhmm[1] * 60 + hhmm[2]

\* Intl.DateTimeFormat in the zone: the local calendar day (as a day number)
formatYMDInTz(date, timeZone) == (date + TzOffsetMs(timeZone)) \div MsPerDay

\* Intl.DateTimeFormat in the zone: the local "HH:MM"
formatHHMMInTz(date, timeZone) ==
  LET m == ((date + TzOffsetMs(timeZone)) % MsPerDay) \div MsPerMinute
  IN  <<m \div 60, m % 60>>

nowInTz(now, tz) ==
  [ymd |-> formatYMDInTz(now, tz),
   hhmm |-> formatHHMMInTz(now, tz),
   minutes |-> hhmmToMinutes(formatHHMMInTz(now, tz))]

\* new Date(`${ymd}T00:00:00.000Z`)
ymdToMidnightUTC(ymd) == ymd * MsPerDay

Min2(a, b) == IF a < b THEN a ELSE b

\* variant: the before-meal window runs to the next slot, without the hour's cap
computeWindowForSlot_NoCap(currentHHMM, currentPeriod, nextStartHHMM) ==
  LET start == hhmmToMinutes(currentHHMM)
      hardStop == IF nextStartHHMM # NoHHMM THEN hhmmToMinutes(nextStartHHMM)
                  ELSE 24 * 60
  IN  IF currentPeriod = "BEFORE_BED"
      THEN [winStart |-> start, winEnd |-> 24 * 60, remindEveryMin |-> 30]
      ELSE [winStart |-> start, winEnd |-> hardStop, remindEveryMin |-> 30]

computeWindowForSlot(currentHHMM, currentPeriod, nextStartHHMM) ==
  LET start == hhmmToMinutes(currentHHMM)
      hardStop == IF nextStartHHMM # NoHHMM THEN hhmmToMinutes(nextStartHHMM)
                  ELSE 24 * 60
  IN  IF currentPeriod \in {"BEFORE_BREAKFAST", "BEFORE_LUNCH", "BEFORE_DINNER"}
      THEN [winStart |-> start, winEnd |-> Min2(start + 60, hardStop),
            remindEveryMin |-> 30]
      ELSE IF currentPeriod = "BEFORE_BED"
      THEN [winStart |-> start, winEnd |-> 24 * 60, remindEveryMin |-> 30]
      ELSE [winStart |-> start, winEnd |-> hardStop, remindEveryMin |-> 30]

\* a.hhmm.localeCompare(b.hhmm) < 0 on zero-padded "HH:MM"
HhmmBefore(a, b) == a[1] < b[1] \/ (a[1] = b[1] /\ a[2] < b[2])

RECURSIVE SortByHhmm(_)
SortByHhmm(S) ==
  IF S = {} THEN <<>>
  ELSE LET first == CHOOSE s \in S : \A o \in S : ~HhmmBefore(o.hhmm, s.hhmm)
       IN  <<first>> \o SortByHhmm(S \ {first})

\* schedules: { where: { isActive: true }, orderBy: { hhmm: 'asc' } }
schedules(rx) == SortByHhmm({s \in DoseSchedule[rx] : s.isActive})

\* variant: the loop does not stop at the first match
CurrentSlot_Last(sorted, nowMin) ==
  LET hit(i) ==
        LET w == computeWindowForSlot(
                   sorted[i].hhmm, sorted[i].period,
                   IF i + 1 <= Len(sorted) THEN sorted[i + 1].hhmm ELSE NoHHMM)
        IN  nowMin >= w.winStart /\ nowMin < w.winEnd
      hits == {i \in 1..Len(sorted) : hit(i)}
  IN  IF hits = {} THEN 0 ELSE CHOOSE i \in hits : \A j \in hits : i >= j

\* the window loop of processTick: the index of the first slot whose window
\* contains nowMin, 0 when there is none
CurrentSlot(sorted, nowMin) ==
  LET hit(i) ==
        LET w == computeWindowForSlot(
                   sorted[i].hhmm, sorted[i].period,
                   IF i + 1 <= Len(sorted) THEN sorted[i + 1].hhmm ELSE NoHHMM)
        IN  nowMin >= w.winStart /\ nowMin < w.winEnd
      hits == {i \in 1..Len(sorted) : hit(i)}
  IN  IF hits = {} THEN 0 ELSE CHOOSE i \in hits : \A j \in hits : i <= j

\* variant: the webhook's bedtime window ends at the next slot
computeWindowForSlotOfWebhook_NoBed(currentHHMM, currentPeriod, nextStartHHMM) ==
  LET start == hhmmToMinutes(currentHHMM)
      hardStop == IF nextStartHHMM # NoHHMM THEN hhmmToMinutes(nextStartHHMM)
                  ELSE 24 * 60
  IN  IF currentPeriod \in {"BEFORE_BREAKFAST", "BEFORE_LUNCH", "BEFORE_DINNER"}
      THEN [winStart |-> start, winEnd |-> Min2(start + 60, hardStop)]
      ELSE [winStart |-> start, winEnd |-> hardStop]

\* computeWindowForSlot of the webhook controller: no cadence in its result
computeWindowForSlotOfWebhook(currentHHMM, currentPeriod, nextStartHHMM) ==
  LET start == hhmmToMinutes(currentHHMM)
      hardStop == IF nextStartHHMM # NoHHMM THEN hhmmToMinutes(nextStartHHMM)
                  ELSE 24 * 60
  IN  IF currentPeriod \in {"BEFORE_BREAKFAST", "BEFORE_LUNCH", "BEFORE_DINNER"}
      THEN [winStart |-> start, winEnd |-> Min2(start + 60, hardStop)]
      ELSE IF currentPeriod = "BEFORE_BED"
      THEN [winStart |-> start, winEnd |-> 24 * 60]
      ELSE [winStart |-> start, winEnd |-> hardStop]

\* the window loop of onText: let current = null; for (...) { if (nowMin >=
\* winStart && nowMin < winEnd) { current = s; break; } }, as the index of
\* current, 0 for null
CurrentSlotOfWebhook(sorted, nowMin) ==
  LET hit(i) ==
        LET w == computeWindowForSlotOfWebhook(
                   sorted[i].hhmm, sorted[i].period,
                   IF i + 1 <= Len(sorted) THEN sorted[i + 1].hhmm ELSE NoHHMM)
        IN  nowMin >= w.winStart /\ nowMin < w.winEnd
      hits == {i \in 1..Len(sorted) : hit(i)}
  IN  IF hits = {} THEN 0 ELSE CHOOSE i \in hits : \A j \in hits : i <= j

\* the unique key of DoseIntake and the lookup key of NotificationLog
Key(p, rx, slotDate, hhmm) ==
  [patientId |-> p, prescriptionId |-> rx, slotDate |-> slotDate, hhmm |-> hhmm]
KeyOf(row) == Key(row.patientId, row.prescriptionId, row.slotDate, row.hhmm)

\* doseIntake.findUnique({ where: { patientId_prescriptionId_slotDate_hhmm } })
IntakeExists(k) == \E d \in doseIntake : KeyOf(d) = k

RECURSIVE SumPills(_)
SumPills(S) ==
  IF S = {} THEN 0
  ELSE LET d == CHOOSE x \in S : TRUE IN d.pills + SumPills(S \ {d})

\* doseIntake.aggregate({ where: { prescriptionId }, _sum: { pills } })
consumed(rx) == SumPills({d \in doseIntake : d.prescriptionId = rx})

\* notificationLog.findFirst({ where: key, orderBy: { sentAt: 'desc' } });
\* null when the key has no row
lastNotif(k) ==
  LET rows == {n \in notificationLog : KeyOf(n) = k}
  IN  IF rows = {} THEN null
      ELSE (CHOOSE n \in rows : \A o \in rows : o.sentAt <= n.sentAt).sentAt

\* variant: the cadence taken in seconds
shouldRemind_Seconds(last, now, remindEveryMin) ==
  last = null \/ now - last >= remindEveryMin * 1000

\* variant: the cadence must be exceeded, not reached
shouldRemind_Strict(last, now, remindEveryMin) ==
  last = null \/ now - last > remindEveryMin * MsPerMinute

\* variant: the cadence taken twice
shouldRemind_Hour(last, now, remindEveryMin) ==
  last = null \/ now - last >= 2 * remindEveryMin * MsPerMinute

shouldRemind(last, now, remindEveryMin) ==
  last = null \/ now - last >= remindEveryMin * MsPerMinute

\* medicationInventory.findMany({ where: { patientId, isActive: true } })
ActiveInvs(p) ==
  SelectSeq(RxOrder, LAMBDA rx : Prescription[rx].patientId = p /\ invActive[rx])

\* rx.timezone || 'Asia/Bangkok'
TzOf(rx) ==
  IF Prescription[rx].timezone # "" THEN Prescription[rx].timezone
  ELSE "Asia/Bangkok"

\* the requests being handled: admitted tick runs and acknowledgments
InFlight ==
  Cardinality({r \in DOMAIN tick : tick[r].pc \notin {"idle", "done"}})
    + Cardinality({a \in DOMAIN ack : ack[a].pc \notin {"idle", "done"}})

\* the LINE push API accepts msg: it becomes the latest message, and the
\* message it replaces is remembered per key: a reminder under the keys of
\* its slots, a course-complete notice under its prescription
NoMessage ==
  [run |-> 0, patientId |-> "", to |-> "", kind |-> "", rxId |-> "", slots |-> {},
   at |-> 0]

Push(msg) ==
  /\ pushed' = msg
  /\ remindedAt' = {e \in remindedAt : e.key \notin pushed.slots}
                     \cup {[key |-> k, at |-> pushed.at] : k \in pushed.slots}

\* no schedule under evaluation
NoCalc ==
  [slots |-> {}, minute |-> 0, current |-> 0, windows |-> <<>>,
   currentOfWebhook |-> 0, windowsOfWebhook |-> <<>>]

\* ------------------------------------------------------------ the cron tick
\* One invocation of CronController.tick: pc is the await it is suspended on
\* ("idle" before it arrives, "done" after it returned), the other fields are
\* the locals of tick and processTick.
Ticks == DOMAIN tick

IdleTick ==
  [pc |-> "idle", req |-> <<>>, pi |-> 0, invs |-> <<>>, ii |-> 0, at |-> 0,
   cur |-> 0, dueSlots |-> <<>>, sent |-> FALSE, users |-> 0, items |-> 0]

DoneTick == [IdleTick EXCEPT !.pc = "done"]

\* the body of a response; NoResponse before the first one
NoRet == [ok |-> FALSE, reason |-> "", error |-> "", users |-> 0, items |-> 0]
NoResponse == [tick |-> 0, req |-> <<>>, ret |-> NoRet]
Respond(r, req, ret) == response' = [tick |-> r, req |-> req, ret |-> ret]

truthy(s) == s # undefined /\ s # ""

\* variant: the secrets compared without the truthiness test
okSecret_NoTruthy(secretQ, secretH, CRON_SECRET) ==
  secretQ = CRON_SECRET \/ secretH = CRON_SECRET

okSecret(secretQ, secretH, CRON_SECRET) ==
  \/ truthy(secretQ) /\ secretQ = CRON_SECRET
  \/ truthy(secretH) /\ secretH = CRON_SECRET

\* variant: a lease is never stale
IsBusy_NoValve(nowMs) == running

\* variant: the staleness bound taken inclusively
IsBusy_Inclusive(nowMs) == running /\ nowMs - startedAt <= MAX_RUN_MS

\* if (running && nowMs - startedAt < MAX_RUN_MS) return 'cron-is-running'
IsBusy(nowMs) == running /\ nowMs - startedAt < MAX_RUN_MS

\* the prescription, zone, schedule and key a run is working on
TickRx(t) == t.invs[t.ii]
TickTz(t) == TzOf(TickRx(t))
TickSlot(t) == schedules(TickRx(t))[t.cur]
TickKey(t) ==
  Key(env.patients[t.pi], TickRx(t),
      ymdToMidnightUTC(nowInTz(t.at, TickTz(t)).ymd), TickSlot(t).hhmm)

\* for (const p of patients): the next patient's inventory query, or the end
\* of processTick
NextPatient(t) ==
  IF t.pi + 1 <= Len(env.patients)
  THEN [t EXCEPT !.pc = "invs", !.pi = t.pi + 1, !.invs = <<>>, !.ii = 0,
                 !.at = 0, !.cur = 0, !.dueSlots = <<>>, !.sent = FALSE]
  ELSE [t EXCEPT !.pc = "end", !.invs = <<>>, !.ii = 0, !.at = 0, !.cur = 0,
                 !.dueSlots = <<>>, !.sent = FALSE]

\* variant: the loop goes on to the next patient whatever is due
AfterInvs_Skip(t) == NextPatient(t)

\* if (dueSlots.length === 0) continue; ... await pushText(p.lineUserId, msg)
AfterInvs(t) ==
  IF Len(t.dueSlots) = 0 THEN NextPatient(t)
  ELSE [t EXCEPT !.pc = "push", !.ii = 0, !.at = 0, !.cur = 0]

\* rx.startDate ?? rx.issueDate ?? rx.createdAt
effStart(rx) ==
  IF Prescription[rx].startDate # null THEN Prescription[rx].startDate
  ELSE IF Prescription[rx].issueDate # null THEN Prescription[rx].issueDate
  ELSE Prescription[rx].createdAt

\* variant: the days are compared as UTC days
InDateRange_Utc(rx, tz, now) ==
  LET ymd == now \div MsPerDay
  IN  /\ effStart(rx) \div MsPerDay <= ymd
      /\ Prescription[rx].endDate = null \/ ymd <= Prescription[rx].endDate \div MsPerDay

\* effStart <= today <= endDate, both as local calendar days
InDateRange(rx, tz, now) ==
  LET ymd == nowInTz(now, tz).ymd
      startOk == formatYMDInTz(effStart(rx), tz) <= ymd
      endOk == Prescription[rx].endDate = null
               \/ ymd <= formatYMDInTz(Prescription[rx].endDate, tz)
  IN  startOk /\ endOk

RECURSIVE EvalFrom(_, _, _)
RECURSIVE WindowLoop(_, _)

\* for (const inv of invs), from index i on, at instant now: up to the next
\* await
EvalFrom(t, i, now) ==
  IF i > Len(t.invs) THEN AfterInvs(t)
  ELSE LET rx == t.invs[i]
           tz == TzOf(rx)
           here == [t EXCEPT !.ii = i, !.at = now, !.cur = 0]
       IN  IF Len(schedules(rx)) = 0 THEN EvalFrom(t, i + 1, now)
           ELSE IF ~InDateRange(rx, tz, now) THEN EvalFrom(t, i + 1, now)
           ELSE IF Prescription[rx].quantityTotal # null
                THEN [here EXCEPT !.pc = "sum"]
                ELSE WindowLoop(here, now)

\* the slot loop of the prescription at t.ii, with nowMin taken at t.at; now
\* is the instant the loop runs at
WindowLoop(t, now) ==
  LET cur == CurrentSlot(schedules(TickRx(t)), nowInTz(t.at, TickTz(t)).minutes)
  IN  IF cur = 0 THEN EvalFrom(t, t.ii + 1, now)
      ELSE [t EXCEPT !.pc = "taken", !.cur = cur]

RetForbidden == [NoRet EXCEPT !.reason = "forbidden"]
RetBusy == [NoRet EXCEPT !.reason = "cron-is-running"]
RetOk(t) == [NoRet EXCEPT !.ok = TRUE, !.users = t.users, !.items = t.items]
RetError == [NoRet EXCEPT !.error = "error"]

\* finally { running = false; startedAt = 0; }
Finally == running' = FALSE /\ startedAt' = 0

\* return { ok: true, ...result } and the finally block
ReturnOk(r, t) ==
  /\ tick' = [tick EXCEPT ![r] = DoneTick]
  /\ Respond(r, <<>>, RetOk(t))
  /\ Finally

\* variant: the error path leaves the lease as it is
ReturnError_NoRelease(r) ==
  /\ tick' = [tick EXCEPT ![r] = DoneTick]
  /\ Respond(r, <<>>, RetError)
  /\ UNCHANGED <<running, startedAt>>

\* catch (err) { return { ok: false, error } } and the finally block
ReturnError(r) ==
  /\ tick' = [tick EXCEPT ![r] = DoneTick]
  /\ Respond(r, <<>>, RetError)
  /\ Finally

\* the run goes on to its next await, or processTick returned
Continue(r, t) ==
  IF t.pc = "end" THEN ReturnOk(r, t)
  ELSE tick' = [tick EXCEPT ![r] = t] /\ UNCHANGED <<running, startedAt, response>>

\* GET api/cron/tick arrives
Tick(r, secretQ, secretH) ==
  /\ tick[r].pc = "idle"
  /\ \A q \in Ticks : q < r => tick[q].pc # "idle"
  /\ InFlight < MaxInFlight
  /\ IF ~okSecret(secretQ, secretH, env.CRON_SECRET)
     THEN /\ tick' = [tick EXCEPT ![r] = DoneTick]
          /\ Respond(r, <<secretQ, secretH>>, RetForbidden)
          /\ UNCHANGED <<running, startedAt>>
     ELSE IF IsBusy(clock)
     THEN /\ tick' = [tick EXCEPT ![r] = DoneTick]
          /\ Respond(r, <<secretQ, secretH>>, RetBusy)
          /\ UNCHANGED <<running, startedAt>>
     ELSE /\ running' = TRUE
          /\ startedAt' = clock
          /\ tick' = [tick EXCEPT ![r] = [@ EXCEPT !.pc = "patients",
                                                   !.req = <<secretQ, secretH>>]]
          /\ UNCHANGED response
  /\ UNCHANGED <<calc, lineCalls, patient, activate, env, clock, nAdv, ack, doseIntake, notificationLog, invActive,
                 pushed, remindedAt, replied>>

\* patient.findMany returned
TickPatients(r) ==
  /\ tick[r].pc = "patients"
  /\ Continue(r, NextPatient([tick[r] EXCEPT !.req = <<>>]))
  /\ UNCHANGED <<calc, lineCalls, patient, activate, env, clock, nAdv, ack, doseIntake, notificationLog, invActive,
                 pushed, remindedAt, replied>>

\* medicationInventory.findMany returned for the patient
TickInvs(r) ==
  /\ tick[r].pc = "invs"
  /\ Continue(r, EvalFrom([tick[r] EXCEPT !.invs = ActiveInvs(env.patients[tick[r].pi])],
                          1, clock))
  /\ UNCHANGED <<calc, lineCalls, patient, activate, env, clock, nAdv, ack, doseIntake, notificationLog, invActive,
                 pushed, remindedAt, replied>>

\* variant: every course with a quantity counts as complete
TickSum_Always(r) ==
  /\ tick[r].pc = "sum"
  /\ Continue(r, [tick[r] EXCEPT !.pc = "deact"])
  /\ UNCHANGED <<calc, lineCalls, patient, activate, env, clock, nAdv, ack, doseIntake, notificationLog, invActive,
                 pushed, remindedAt, replied>>

\* variant: the course is complete only when quantityTotal is exceeded
TickSum_Exceeds(r) ==
  /\ tick[r].pc = "sum"
  /\ IF consumed(TickRx(tick[r])) > Prescription[TickRx(tick[r])].quantityTotal
     THEN Continue(r, [tick[r] EXCEPT !.pc = "deact"])
     ELSE Continue(r, WindowLoop(tick[r], clock))
  /\ UNCHANGED <<calc, lineCalls, patient, activate, env, clock, nAdv, ack, doseIntake, notificationLog, invActive,
                 pushed, remindedAt, replied>>

\* doseIntake.aggregate returned: course complete or on to the slot loop
TickSum(r) ==
  /\ tick[r].pc = "sum"
  /\ IF consumed(TickRx(tick[r])) >= Prescription[TickRx(tick[r])].quantityTotal
     THEN Continue(r, [tick[r] EXCEPT !.pc = "deact"])
     ELSE Continue(r, WindowLoop(tick[r], clock))
  /\ UNCHANGED <<calc, lineCalls, patient, activate, env, clock, nAdv, ack, doseIntake, notificationLog, invActive,
                 pushed, remindedAt, replied>>

\* variant: the tick also deletes the DoseIntake rows of the finished course
TickDeactivate_Purge(r, updated) ==
  /\ tick[r].pc = "deact"
  /\ invActive' = IF updated THEN [invActive EXCEPT ![TickRx(tick[r])] = FALSE]
                  ELSE invActive
  /\ doseIntake' = {d \in doseIntake : d.prescriptionId # TickRx(tick[r])}
  /\ Continue(r, [tick[r] EXCEPT !.pc = "donePush"])
  /\ UNCHANGED <<calc, lineCalls, patient, activate, env, clock, nAdv, ack, notificationLog,
                 pushed, remindedAt, replied>>

\* medicationInventory.update({ isActive: false }) returned or threw (the
\* throw is swallowed)
TickDeactivate(r, updated) ==
  /\ tick[r].pc = "deact"
  /\ invActive' = IF updated THEN [invActive EXCEPT ![TickRx(tick[r])] = FALSE]
                  ELSE invActive
  /\ Continue(r, [tick[r] EXCEPT !.pc = "donePush"])
  /\ UNCHANGED <<calc, lineCalls, patient, activate, env, clock, nAdv, ack, doseIntake, notificationLog,
                 pushed, remindedAt, replied>>

\* pushText of the course-complete notice returned or threw (swallowed)
TickDonePush(r, sent) ==
  /\ tick[r].pc = "donePush"
  /\ IF sent
     THEN Push([run |-> r, patientId |-> env.patients[tick[r].pi],
                to |-> lineUserId[env.patients[tick[r].pi]],
                kind |-> "complete", rxId |-> TickRx(tick[r]),
                slots |-> {}, at |-> clock])
     ELSE UNCHANGED <<pushed, remindedAt>>
  /\ Continue(r, EvalFrom(tick[r], tick[r].ii + 1, clock))
  /\ UNCHANGED <<calc, lineCalls, patient, activate, env, clock, nAdv, ack, doseIntake, notificationLog, invActive,
                 replied>>

\* variant: the result of the lookup is not looked at
TickTaken_Ignore(r) ==
  /\ tick[r].pc = "taken"
  /\ Continue(r, [tick[r] EXCEPT !.pc = "notif"])
  /\ UNCHANGED <<calc, lineCalls, patient, activate, env, clock, nAdv, ack, doseIntake, notificationLog, invActive,
                 pushed, remindedAt, replied>>

\* doseIntake.findUnique returned: if (taken) break
TickTaken(r) ==
  /\ tick[r].pc = "taken"
  /\ IF IntakeExists(TickKey(tick[r]))
     THEN Continue(r, EvalFrom(tick[r], tick[r].ii + 1, clock))
     ELSE Continue(r, [tick[r] EXCEPT !.pc = "notif"])
  /\ UNCHANGED <<calc, lineCalls, patient, activate, env, clock, nAdv, ack, doseIntake, notificationLog, invActive,
                 pushed, remindedAt, replied>>

\* the dueSlots entry of the run's current slot
DueSlot(t) ==
  [rxId |-> TickRx(t), slotHhmm |-> TickSlot(t).hhmm, pills |-> TickSlot(t).pills,
   slotDate |-> TickKey(t).slotDate, period |-> TickSlot(t).period]

\* variant: the due slot replaces the items collected so far
AfterNotif_Replace(t, last, now) ==
  LET w == computeWindowForSlot(TickSlot(t).hhmm, TickSlot(t).period, NoHHMM)
  IN  IF shouldRemind(last, now, w.remindEveryMin)
      THEN [t EXCEPT !.dueSlots = <<DueSlot(t)>>]
      ELSE t

\* what the run does with its current slot once lastNotif is known
AfterNotif(t, last, now) ==
  LET w == computeWindowForSlot(TickSlot(t).hhmm, TickSlot(t).period, NoHHMM)
  IN  IF shouldRemind(last, now, w.remindEveryMin)
      THEN [t EXCEPT !.dueSlots = Append(t.dueSlots, DueSlot(t))]
      ELSE t

\* notificationLog.findFirst returned: cadence check, dueSlots.push, break
TickNotif(r) ==
  /\ tick[r].pc = "notif"
  /\ LET t == AfterNotif(tick[r], lastNotif(TickKey(tick[r])), clock)
     IN  Continue(r, EvalFrom(t, t.ii + 1, clock))
  /\ UNCHANGED <<calc, lineCalls, patient, activate, env, clock, nAdv, ack, doseIntake, notificationLog, invActive,
                 pushed, remindedAt, replied>>

SlotKeys(p, dueSlots) ==
  {Key(p, dueSlots[i].rxId, dueSlots[i].slotDate, dueSlots[i].slotHhmm) :
     i \in 1..Len(dueSlots)}

\* variant: the failed push falls through to the log write
PushFailed_FallThrough(t) == [t EXCEPT !.pc = "log"]

\* variant: the failed push ends the loop
PushFailed_Break(t) ==
  [t EXCEPT !.pc = "end", !.invs = <<>>, !.ii = 0, !.at = 0, !.cur = 0,
            !.dueSlots = <<>>, !.sent = FALSE]

\* catch (e) { logger.error(...); continue; }
PushFailed(t) == NextPatient(t)

\* pushText of the reminder returned (res.ok) or threw
TickPush(r, sent) ==
  /\ tick[r].pc = "push"
  /\ IF sent
     THEN /\ Push([run |-> r, patientId |-> env.patients[tick[r].pi],
                   to |-> lineUserId[env.patients[tick[r].pi]],
                   kind |-> "reminder", rxId |-> "",
                   slots |-> SlotKeys(env.patients[tick[r].pi], tick[r].dueSlots),
                   at |-> clock])
          /\ Continue(r, [tick[r] EXCEPT !.pc = "log", !.sent = TRUE])
     ELSE /\ UNCHANGED <<pushed, remindedAt>>
          /\ Continue(r, PushFailed(tick[r]))
  /\ UNCHANGED <<calc, lineCalls, patient, activate, env, clock, nAdv, ack, doseIntake, notificationLog, invActive,
                 replied>>

\* variant: the batch stops after its first create
LogRows_FirstOnly(r, t, now) ==
  {[id |-> <<r, i>>, patientId |-> env.patients[t.pi], prescriptionId |-> t.dueSlots[i].rxId,
    hhmm |-> t.dueSlots[i].slotHhmm, slotDate |-> t.dueSlots[i].slotDate,
    sentAt |-> now] : i \in 1..1}

\* the rows of prisma.$transaction(dueSlots.map(notificationLog.create));
\* sentAt defaults to CURRENT_TIMESTAMP, id stands for the generated row id
LogRows(r, t, now) ==
  {[id |-> <<r, i>>, patientId |-> env.patients[t.pi], prescriptionId |-> t.dueSlots[i].rxId,
    hhmm |-> t.dueSlots[i].slotHhmm, slotDate |-> t.dueSlots[i].slotDate,
    sentAt |-> now] : i \in 1..Len(t.dueSlots)}

\* variant: items counts one per patient
TickLog_CountOne(r) ==
  /\ tick[r].pc = "log"
  /\ notificationLog' = notificationLog \cup LogRows(r, tick[r], clock)
  /\ Continue(r, NextPatient([tick[r] EXCEPT !.users = @ + 1, !.items = @ + 1]))
  /\ UNCHANGED <<calc, lineCalls, patient, activate, env, clock, nAdv, ack, doseIntake, invActive, pushed, remindedAt,
                 replied>>

\* prisma.$transaction committed: users += 1; items += dueSlots.length
TickLog(r) ==
  /\ tick[r].pc = "log"
  /\ notificationLog' = notificationLog \cup LogRows(r, tick[r], clock)
  /\ Continue(r, NextPatient([tick[r] EXCEPT !.users = @ + 1,
                                             !.items = @ + Len(tick[r].dueSlots)]))
  /\ UNCHANGED <<calc, lineCalls, patient, activate, env, clock, nAdv, ack, doseIntake, invActive, pushed, remindedAt,
                 replied>>

\* the awaits of processTick that are not inside a try block
Uncaught == {"patients", "invs", "sum", "taken", "notif", "log"}

\* a persistence call of processTick threw: processTick rejects, tick catches
TickThrow(r) ==
  /\ tick[r].pc \in Uncaught
  /\ ReturnError(r)
  /\ UNCHANGED <<calc, lineCalls, patient, activate, env, clock, nAdv, ack, doseIntake, notificationLog, invActive,
                 pushed, remindedAt, replied>>

\* ------------------------------------------------- the acknowledgment
\* One text event handled by LineWebhookController.handle / onText: pc is
\* the await it is suspended on, msg the trimmed text of the event, text the
\* reply chosen, the other fields are the locals of onText.
Acks == DOMAIN ack

IdleAck ==
  [pc |-> "idle", uid |-> "", patient |-> "", invs |-> <<>>, ii |-> 0, at |-> 0,
   cur |-> 0, takenList |-> <<>>, finishedNow |-> <<>>, text |-> "", msg |-> <<>>]

DoneAck == [IdleAck EXCEPT !.pc = "done"]

NoReply ==
  [ack |-> 0, to |-> "", text |-> "", takenList |-> <<>>, finishedNow |-> <<>>,
   at |-> 0]

\* patient.findFirst({ where: { lineUserId } }); "" when there is none
PatientOf(uid) ==
  IF \E p \in PatientIds : lineUserId[p] = uid
  THEN CHOOSE p \in PatientIds : lineUserId[p] = uid
  ELSE ""

AckRx(t) == t.invs[t.ii]
AckSlot(t) == schedules(AckRx(t))[t.cur]
AckKey(t) ==
  Key(t.patient, AckRx(t),
      ymdToMidnightUTC(formatYMDInTz(t.at, TzOf(AckRx(t)))), AckSlot(t).hhmm)

\* variant: the confirmation is sent whatever was recorded
AckAfterInvs_Confirm(t) ==
  [t EXCEPT !.pc = "reply", !.ii = 0, !.at = 0, !.cur = 0, !.text = "recorded"]

\* the end of the loop: the reply is chosen and sent
AckAfterInvs(t) ==
  [t EXCEPT !.pc = "reply", !.ii = 0, !.at = 0, !.cur = 0,
            !.text = IF Len(t.takenList) = 0 THEN "nothing-to-record"
                     ELSE "recorded"]

RECURSIVE AckEvalFrom(_, _, _)
\* for (const inv of invs), from index i on, at instant now: up to the next
\* await
AckEvalFrom(t, i, now) ==
  IF i > Len(t.invs) THEN AckAfterInvs(t)
  ELSE LET rx == t.invs[i]
           nowMin == hhmmToMinutes(formatHHMMInTz(now, TzOf(rx)))
           cur == CurrentSlotOfWebhook(schedules(rx), nowMin)
       IN  IF Len(schedules(rx)) = 0 THEN AckEvalFrom(t, i + 1, now)
           ELSE IF cur = 0 THEN AckEvalFrom(t, i + 1, now)
           ELSE [t EXCEPT !.pc = "exists", !.ii = i, !.at = now, !.cur = cur]

\* A message text is a sequence of pieces: a blank, or a run of characters
\* without blanks. AckPhrase is the text of the "medicine taken" menu,
\* InfoPhrase the text of the "user information" menu.
Blank == " "
AckPhrase == "taken"
InfoPhrase == "info"

RECURSIVE trimStart(_)
trimStart(text) ==
  IF text # <<>> /\ Head(text) = Blank THEN trimStart(Tail(text)) ELSE text

RECURSIVE trimEnd(_)
trimEnd(text) ==
  IF text # <<>> /\ text[Len(text)] = Blank
  THEN trimEnd(SubSeq(text, 1, Len(text) - 1))
  ELSE text

\* String.prototype.trim
trim(text) == trimEnd(trimStart(text))

\* variant: a text that holds the phrase anywhere is the acknowledgment
isAck_Contains(text) == \E i \in 1..Len(text) : text[i] = AckPhrase

\* text === (the acknowledgment phrase)
isAck(text) == text = <<AckPhrase>>

\* text === (the phrase of the information menu)
isInfo(text) == text = <<InfoPhrase>>

\* a text event arrives: onText up to its first await. Without a user id,
\* or with a text that is neither phrase, onText returns at once.
OnText(a, uid, raw) ==
  /\ ack[a].pc = "idle"
  /\ \A b \in Acks : b < a => ack[b].pc # "idle"
  /\ InFlight < MaxInFlight
  /\ ack' = [ack EXCEPT ![a] =
       IF uid = "" THEN [DoneAck EXCEPT !.msg = trim(raw)]
       ELSE IF isInfo(trim(raw))
       THEN [@ EXCEPT !.pc = "infoPatient", !.uid = uid, !.msg = trim(raw)]
       ELSE IF isAck(trim(raw))
       THEN [@ EXCEPT !.pc = "patient", !.uid = uid, !.msg = trim(raw)]
       ELSE [DoneAck EXCEPT !.uid = uid, !.msg = trim(raw)]]
  /\ UNCHANGED <<calc, lineCalls, patient, activate, env, clock, nAdv, running, startedAt, tick, doseIntake,
                 notificationLog, invActive, response, pushed, remindedAt, replied>>

\* a text event arrives whose text is the acknowledgment phrase
Ack(a, uid) == OnText(a, uid, <<AckPhrase>>)

\* the information menu, patient.findFirst returned
InfoPatient(a) ==
  /\ ack[a].pc = "infoPatient"
  /\ ack' = [ack EXCEPT ![a] =
       IF PatientOf(ack[a].uid) = ""
       THEN [@ EXCEPT !.pc = "reply", !.text = "no-account"]
       ELSE [@ EXCEPT !.pc = "infoInvs", !.patient = PatientOf(ack[a].uid)]]
  /\ UNCHANGED <<calc, lineCalls, patient, activate, env, clock, nAdv, running, startedAt, tick, doseIntake,
                 notificationLog, invActive, response, pushed, remindedAt, replied>>

RECURSIVE InfoEvalFrom(_, _)
\* the information menu, for (const inv of invs) from index i on: up to the
\* next await, the aggregate of a prescription with a numeric quantityTotal
InfoEvalFrom(t, i) ==
  IF i > Len(t.invs) THEN [t EXCEPT !.pc = "reply", !.ii = 0, !.text = "info-menu"]
  ELSE IF Prescription[t.invs[i]].quantityTotal # null
  THEN [t EXCEPT !.pc = "infoSum", !.ii = i]
  ELSE InfoEvalFrom(t, i + 1)

\* the information menu, medicationInventory.findMany returned
InfoInvs(a) ==
  /\ ack[a].pc = "infoInvs"
  /\ ack' = [ack EXCEPT ![a] =
       InfoEvalFrom([@ EXCEPT !.invs = ActiveInvs(ack[a].patient)], 1)]
  /\ UNCHANGED <<calc, lineCalls, patient, activate, env, clock, nAdv, running, startedAt, tick, doseIntake,
                 notificationLog, invActive, response, pushed, remindedAt, replied>>

\* the information menu, doseIntake.aggregate returned: the remaining count
\* goes into the line of the prescription
InfoSum(a) ==
  /\ ack[a].pc = "infoSum"
  /\ ack' = [ack EXCEPT ![a] = InfoEvalFrom(ack[a], ack[a].ii + 1)]
  /\ UNCHANGED <<calc, lineCalls, patient, activate, env, clock, nAdv, running, startedAt, tick, doseIntake,
                 notificationLog, invActive, response, pushed, remindedAt, replied>>

\* patient.findFirst returned
AckPatient(a) ==
  /\ ack[a].pc = "patient"
  /\ ack' = [ack EXCEPT ![a] =
       IF PatientOf(ack[a].uid) = ""
       THEN [@ EXCEPT !.pc = "reply", !.text = "no-account"]
       ELSE [@ EXCEPT !.pc = "invs", !.patient = PatientOf(ack[a].uid)]]
  /\ UNCHANGED <<calc, lineCalls, patient, activate, env, clock, nAdv, running, startedAt, tick, doseIntake,
                 notificationLog, invActive, response, pushed, remindedAt, replied>>

\* medicationInventory.findMany returned
AckInvs(a) ==
  /\ ack[a].pc = "invs"
  /\ ack' = [ack EXCEPT ![a] =
       AckEvalFrom([@ EXCEPT !.invs = ActiveInvs(ack[a].patient)], 1, clock)]
  /\ UNCHANGED <<calc, lineCalls, patient, activate, env, clock, nAdv, running, startedAt, tick, doseIntake,
                 notificationLog, invActive, response, pushed, remindedAt, replied>>

\* variant: the lookup never finds a row
AckExists_Blind(a) ==
  /\ ack[a].pc = "exists"
  /\ ack' = [ack EXCEPT ![a] = [@ EXCEPT !.pc = "create"]]
  /\ UNCHANGED <<calc, lineCalls, patient, activate, env, clock, nAdv, running, startedAt, tick, doseIntake,
                 notificationLog, invActive, response, pushed, remindedAt, replied>>

\* doseIntake.findUnique returned: if (exists) continue
AckExists(a) ==
  /\ ack[a].pc = "exists"
  /\ ack' = [ack EXCEPT ![a] =
       IF IntakeExists(AckKey(ack[a]))
       THEN AckEvalFrom(ack[a], ack[a].ii + 1, clock)
       ELSE [@ EXCEPT !.pc = "create"]]
  /\ UNCHANGED <<calc, lineCalls, patient, activate, env, clock, nAdv, running, startedAt, tick, doseIntake,
                 notificationLog, invActive, response, pushed, remindedAt, replied>>

\* variant: every row counts one pill
IntakeRow_OnePill(t, now) ==
  [patientId |-> t.patient, prescriptionId |-> AckRx(t),
   slotDate |-> AckKey(t).slotDate, hhmm |-> AckSlot(t).hhmm,
   pills |-> 1, takenAt |-> now]

\* the row of doseIntake.create; takenAt defaults to CURRENT_TIMESTAMP
IntakeRow(t, now) ==
  [patientId |-> t.patient, prescriptionId |-> AckRx(t),
   slotDate |-> AckKey(t).slotDate, hhmm |-> AckSlot(t).hhmm,
   pills |-> AckSlot(t).pills, takenAt |-> now]

\* variant: the table has no unique index on the key
AckCreate_NoIndex(a) ==
  /\ ack[a].pc = "create"
  /\ doseIntake' = doseIntake \cup {IntakeRow(ack[a], clock)}
  /\ ack' = [ack EXCEPT ![a] =
       LET t == [@ EXCEPT !.takenList = Append(@, AckKey(ack[a]))]
       IN  IF Prescription[AckRx(t)].quantityTotal # null
           THEN [t EXCEPT !.pc = "sum"]
           ELSE AckEvalFrom(t, t.ii + 1, clock)]
  /\ UNCHANGED <<calc, lineCalls, patient, activate, env, clock, nAdv, running, startedAt, tick,
                 notificationLog, invActive, response, pushed, remindedAt, replied>>

\* doseIntake.create returned, or threw on the unique index: the throw leaves
\* onText and is logged by handle, which sends no reply
AckCreate(a) ==
  /\ ack[a].pc = "create"
  /\ IF IntakeExists(AckKey(ack[a]))
     THEN /\ ack' = [ack EXCEPT ![a] = DoneAck]
          /\ doseIntake' = doseIntake
     ELSE /\ doseIntake' = doseIntake \cup {IntakeRow(ack[a], clock)}
          /\ ack' = [ack EXCEPT ![a] =
               LET t == [@ EXCEPT !.takenList = Append(@, AckKey(ack[a]))]
               IN  IF Prescription[AckRx(t)].quantityTotal # null
                   THEN [t EXCEPT !.pc = "sum"]
                   ELSE AckEvalFrom(t, t.ii + 1, clock)]
  /\ UNCHANGED <<calc, lineCalls, patient, activate, env, clock, nAdv, running, startedAt, tick,
                 notificationLog, invActive, response, pushed, remindedAt, replied>>

\* doseIntake.aggregate returned
AckSum(a) ==
  /\ ack[a].pc = "sum"
  /\ ack' = [ack EXCEPT ![a] =
       IF consumed(AckRx(ack[a])) >= Prescription[AckRx(ack[a])].quantityTotal
       THEN [@ EXCEPT !.pc = "deact"]
       ELSE AckEvalFrom(ack[a], ack[a].ii + 1, clock)]
  /\ UNCHANGED <<calc, lineCalls, patient, activate, env, clock, nAdv, running, startedAt, tick, doseIntake,
                 notificationLog, invActive, response, pushed, remindedAt, replied>>

\* medicationInventory.update({ isActive: false }) returned or threw (the
\* throw is swallowed); finishedNow.push
AckDeactivate(a, updated) ==
  /\ ack[a].pc = "deact"
  /\ invActive' = IF updated THEN [invActive EXCEPT ![AckRx(ack[a])] = FALSE]
                  ELSE invActive
  /\ ack' = [ack EXCEPT ![a] =
       AckEvalFrom([@ EXCEPT !.finishedNow = Append(@, AckRx(ack[a]))],
                   ack[a].ii + 1, clock)]
  /\ UNCHANGED <<calc, lineCalls, patient, activate, env, clock, nAdv, running, startedAt, tick, doseIntake,
                 notificationLog, response, pushed, remindedAt, replied>>

\* replyTo: fetch resolved (whatever the status, accepted says whether LINE
\* took the message) 
AckReply(a, accepted) ==
  /\ ack[a].pc = "reply"
  /\ replied' =
       IF accepted
       THEN [ack |-> a, to |-> ack[a].uid, text |-> ack[a].text,
             takenList |-> ack[a].takenList,
             finishedNow |-> ack[a].finishedNow, at |-> clock]
       ELSE replied
  /\ ack' = [ack EXCEPT ![a] = DoneAck]
  /\ UNCHANGED <<calc, lineCalls, patient, activate, env, clock, nAdv, running, startedAt, tick, doseIntake,
                 notificationLog, invActive, response, pushed, remindedAt>>

\* the awaits of onText that are not inside a try block
AckUncaught ==
  {"patient", "invs", "exists", "create", "sum", "reply",
   "infoPatient", "infoInvs", "infoSum"}

\* a persistence call or fetch threw: onText rejects, handle logs the error
AckThrow(a) ==
  /\ ack[a].pc \in AckUncaught
  /\ ack' = [ack EXCEPT ![a] = DoneAck]
  /\ UNCHANGED <<calc, lineCalls, patient, activate, env, clock, nAdv, running, startedAt, tick, doseIntake,
                 notificationLog, invActive, response, pushed, remindedAt, replied>>

\* ------------------------------------------------- the inventory toggle
\* the prescriptions the administrator switches in the behaviours checked
ToggleRx == {"rx1"}

\* PATCH api/admin/inventory/:prescriptionId with body { isActive }: the
\* prescription is found and medicationInventory.upsert sets the flag
Toggle(rx, isActive) ==
  /\ rx \in Rx
  /\ invActive[rx] # isActive
  /\ invActive' = [invActive EXCEPT ![rx] = isActive]
  /\ UNCHANGED <<calc, lineCalls, patient, activate, env, clock, nAdv, running, startedAt, tick, ack, doseIntake,
                 notificationLog, response, pushed, remindedAt, replied>>

\* ------------------------------------------------------------------- time
\* Time passes between requests and while a request waits for the LINE
\* platform; a persistence call answers within the clock's resolution.
Quiet == /\ \A r \in Ticks : tick[r].pc \in {"idle", "done"}
         /\ \A a \in Acks : ack[a].pc \in {"idle", "done"}
OnLine == \/ \E r \in Ticks : tick[r].pc \in {"push", "donePush"}
          \/ \E a \in Acks : ack[a].pc = "reply"

Advance(d) ==
  /\ nAdv < MaxAdvances
  /\ Quiet \/ OnLine
  /\ clock' = clock + d
  /\ nAdv' = nAdv + 1
  /\ UNCHANGED <<calc, lineCalls, patient, activate, env, running, startedAt, tick, ack, doseIntake, notificationLog,
                 invActive, response, pushed, remindedAt, replied>>

\* ------------------------------------------------------------------ system
\* DoseIntake rows of today's 07:00 slots of rx1 and rx3, taken at 07:00
TakenToday ==
  {[patientId |-> Prescription[rx].patientId, prescriptionId |-> rx,
    slotDate |-> ymdToMidnightUTC(StartDay), hhmm |-> <<7, 0>>, pills |-> 1,
    takenAt |-> StartClock] : rx \in {"rx1", "rx3"}}

InitWith(nTicks, nAcks, intakes) ==
  /\ env \in [CRON_SECRET : EnvSecrets, patients : {<<"p1", "p2">>}]
  /\ clock = StartClock
  /\ nAdv = 0
  /\ running = FALSE
  /\ startedAt = 0
  /\ tick = [r \in 1..nTicks |-> IdleTick]
  /\ ack = [a \in 1..nAcks |-> IdleAck]
  /\ doseIntake \in intakes
  /\ notificationLog = {}
  /\ invActive = [rx \in Rx |-> TRUE]
  /\ response = NoResponse
  /\ pushed = NoMessage
  /\ remindedAt = {}
  /\ replied = NoReply
  /\ lineCalls = <<>>
  /\ patient = BoundPatients
  /\ activate = <<>>
  /\ calc = NoCalc

\* ticks and acknowledgments arriving in any interleaving
Init == InitWith(RaceTicks, MaxAcks, {{}})

\* ticks alone, over a table of doses already taken or not
TickInit == InitWith(MaxTicks, 0, {{}, TakenToday})

TickNext ==
  \/ \E r \in Ticks, req \in Requests : Tick(r, req[1], req[2])
  \/ \E r \in Ticks : TickPatients(r)
  \/ \E r \in Ticks : TickInvs(r)
  \/ \E r \in Ticks : TickSum(r)
  \/ \E r \in Ticks, updated \in BOOLEAN : TickDeactivate(r, updated)
  \/ \E r \in Ticks, sent \in BOOLEAN : TickDonePush(r, sent)
  \/ \E r \in Ticks : TickTaken(r)
  \/ \E r \in Ticks : TickNotif(r)
  \/ \E r \in Ticks, sent \in BOOLEAN : TickPush(r, sent)
  \/ \E r \in Ticks : TickLog(r)
  \/ \E r \in Ticks : TickThrow(r)

AckNext ==
  \/ \E a \in Acks, uid \in LineUserIds : Ack(a, uid)
  \/ \E a \in Acks : AckPatient(a)
  \/ \E a \in Acks : AckInvs(a)
  \/ \E a \in Acks : AckExists(a)
  \/ \E a \in Acks : AckCreate(a)
  \/ \E a \in Acks : AckSum(a)
  \/ \E a \in Acks, updated \in BOOLEAN : AckDeactivate(a, updated)
  \/ \E a \in Acks, accepted \in BOOLEAN : AckReply(a, accepted)
  \/ \E a \in Acks : AckThrow(a)

Next ==
  \/ TickNext
  \/ AckNext
  \/ \E d \in AdvanceSteps : Advance(d)

Spec == Init /\ [][Next]_vars

TickOnlyNext ==
  \/ TickNext
  \/ \E d \in AdvanceSteps : Advance(d)

TickSpec == TickInit /\ [][TickOnlyNext]_vars

\* a course already complete: the one pill of rx1 was taken yesterday, and
\* today's 07:00 slot of rx1 has no DoseIntake
TakenBefore ==
  {[patientId |-> "p1", prescriptionId |-> "rx1",
    slotDate |-> ymdToMidnightUTC(StartDay - 1), hhmm |-> <<7, 0>>, pills |-> 1,
    takenAt |-> StartClock - MsPerDay]}

\* ticks and inventory toggles over a completed course of p1
CourseInit ==
  /\ env = [CRON_SECRET |-> "s3cret", patients |-> <<"p1">>]
  /\ clock = StartClock
  /\ nAdv = 0
  /\ running = FALSE
  /\ startedAt = 0
  /\ tick = [r \in 1..MaxTicks |-> IdleTick]
  /\ ack = <<>>
  /\ doseIntake = TakenBefore
  /\ notificationLog = {}
  /\ invActive = [rx \in Rx |-> TRUE]
  /\ response = NoResponse
  /\ pushed = NoMessage
  /\ remindedAt = {}
  /\ replied = NoReply
  /\ lineCalls = <<>>
  /\ patient = BoundPatients
  /\ activate = <<>>
  /\ calc = NoCalc

CourseNext ==
  \/ TickNext
  \/ \E rx \in ToggleRx, isActive \in BOOLEAN : Toggle(rx, isActive)
  \/ \E d \in AdvanceSteps : Advance(d)

CourseSpec == CourseInit /\ [][CourseNext]_vars

\* acknowledgments alone: webhook requests handled concurrently
AckInit ==
  /\ env = [CRON_SECRET |-> "s3cret", patients |-> <<"p1", "p2">>]
  /\ clock = StartClock
  /\ nAdv = 0
  /\ running = FALSE
  /\ startedAt = 0
  /\ tick = <<>>
  /\ ack = [a \in 1..MaxAckOnly |-> IdleAck]
  /\ doseIntake = {}
  /\ notificationLog = {}
  /\ invActive = [rx \in Rx |-> TRUE]
  /\ response = NoResponse
  /\ pushed = NoMessage
  /\ remindedAt = {}
  /\ replied = NoReply
  /\ lineCalls = <<>>
  /\ patient = BoundPatients
  /\ activate = <<>>
  /\ calc = NoCalc

AckOnlyNext ==
  \/ AckNext
  \/ \E d \in AdvanceSteps : Advance(d)

AckSpec == AckInit /\ [][AckOnlyNext]_vars

\* acknowledgments alone, one after the other: the events of one webhook
\* request, which handle awaits in turn
SeqAckNext ==
  \/ AckNext /\ InFlight' <= 1
  \/ \E d \in AdvanceSteps : Advance(d)

SeqAckSpec == AckInit /\ [][SeqAckNext]_vars

\* the instant of local time h:m of StartDay in Asia/Bangkok
LocalToday(h, m) == StartClock + ((h - 7) * 60 + m) * MsPerMinute

\* acknowledgments at 07:00, when slots of every patient are open, or at
\* 09:10, when no window of p1 is open
RecorderInit ==
  /\ env = [CRON_SECRET |-> "s3cret", patients |-> <<"p1", "p2">>]
  /\ clock \in {StartClock, LocalToday(9, 10)}
  /\ nAdv = 0
  /\ running = FALSE
  /\ startedAt = 0
  /\ tick = <<>>
  /\ ack = [a \in 1..MaxAckOnly |-> IdleAck]
  /\ doseIntake = {}
  /\ notificationLog = {}
  /\ invActive = [rx \in Rx |-> TRUE]
  /\ response = NoResponse
  /\ pushed = NoMessage
  /\ remindedAt = {}
  /\ replied = NoReply
  /\ lineCalls = <<>>
  /\ patient = BoundPatients
  /\ activate = <<>>
  /\ calc = NoCalc

RecorderSpec == RecorderInit /\ [][AckOnlyNext]_vars

\* the texts of the events: the two phrases, alone and with blanks around
\* them, texts that hold the acknowledgment phrase among other words, other
\* texts and the empty text
Texts ==
  {<<AckPhrase>>, <<Blank, AckPhrase, Blank>>, <<AckPhrase, Blank, "now">>,
   <<InfoPhrase>>, <<Blank, InfoPhrase>>, <<"hello">>, <<>>}

\* text events of any text, one after the other as handle awaits them
TextNext ==
  \/ \E a \in Acks, uid \in LineUserIds \cup {""}, raw \in Texts :
       OnText(a, uid, raw) /\ InFlight' <= 1
  \/ \E a \in Acks : InfoPatient(a)
  \/ \E a \in Acks : InfoInvs(a)
  \/ \E a \in Acks : InfoSum(a)
  \/ \E a \in Acks : AckPatient(a)
  \/ \E a \in Acks : AckInvs(a)
  \/ \E a \in Acks : AckExists(a)
  \/ \E a \in Acks : AckCreate(a)
  \/ \E a \in Acks : AckSum(a)
  \/ \E a \in Acks, updated \in BOOLEAN : AckDeactivate(a, updated)
  \/ \E a \in Acks, accepted \in BOOLEAN : AckReply(a, accepted)
  \/ \E a \in Acks : AckThrow(a)
  \/ \E d \in AdvanceSteps : Advance(d)

TextSpec == AckInit /\ [][TextNext]_vars

\* ------------------------------------------------ ticks over one patient
\* the steps of a tick over prescriptions without quantityTotal: the
\* completion check is not reached
PlainTickNext ==
  \/ \E r \in Ticks, req \in Requests : Tick(r, req[1], req[2])
  \/ \E r \in Ticks : TickPatients(r)
  \/ \E r \in Ticks : TickInvs(r)
  \/ \E r \in Ticks : TickTaken(r)
  \/ \E r \in Ticks : TickNotif(r)
  \/ \E r \in Ticks, sent \in BOOLEAN : TickPush(r, sent)
  \/ \E r \in Ticks : TickLog(r)
  \/ \E r \in Ticks : TickThrow(r)
  \/ \E d \in AdvanceSteps : Advance(d)

\* a NotificationLog row of today's 07:00 slot of rx4, written at 07:05 by a
\* run before the behaviour
LogAt0705 ==
  [id |-> <<0, 1>>, patientId |-> "p3", prescriptionId |-> "rx4",
   hhmm |-> <<7, 0>>, slotDate |-> ymdToMidnightUTC(StartDay),
   sentAt |-> LocalToday(7, 5)]

\* the instants the ticks of the before-breakfast prescription start from
ScenarioClocks ==
  {LocalToday(7, 5), LocalToday(7, 20), LocalToday(7, 35), LocalToday(7, 50),
   LocalToday(8, 10)}

\* p3 with the one before-breakfast slot of rx4, with or without the 07:05 row
ScenarioInit ==
  /\ env = [CRON_SECRET |-> "s3cret", patients |-> <<"p3">>]
  /\ clock \in ScenarioClocks
  /\ nAdv = 0
  /\ running = FALSE
  /\ startedAt = 0
  /\ tick = [r \in 1..MaxTicks |-> IdleTick]
  /\ ack = <<>>
  /\ doseIntake = {}
  /\ notificationLog \in {{}, {LogAt0705}}
  /\ invActive = [rx \in Rx |-> TRUE]
  /\ response = NoResponse
  /\ pushed = NoMessage
  /\ remindedAt = {}
  /\ replied = NoReply
  /\ lineCalls = <<>>
  /\ patient = BoundPatients
  /\ activate = <<>>
  /\ calc = NoCalc

ScenarioSpec == ScenarioInit /\ [][PlainTickNext]_vars

\* the instant of local time h:m of the local day in Asia/Bangkok
LocalAt(day, h, m) ==
  day * MsPerDay + (h * 60 + m) * MsPerMinute - TzOffsetMs("Asia/Bangkok")

\* instants around the first and the last day of rx6: the evening before the
\* first day, the first day before the instant of startDate, the first day
\* at noon, the last day after the instant of endDate, the night after it
DateClocks ==
  {LocalAt(StartDay - 1, 23, 30), LocalAt(StartDay, 0, 30), LocalAt(StartDay, 12, 0),
   LocalAt(StartDay + 1, 23, 30), LocalAt(StartDay + 2, 0, 30)}

\* ticks for p5 alone, whose prescription rx6 has a start and an end date
DateInit ==
  /\ env = [CRON_SECRET |-> "s3cret", patients |-> <<"p5">>]
  /\ clock \in DateClocks
  /\ nAdv = 0
  /\ running = FALSE
  /\ startedAt = 0
  /\ tick = [r \in 1..MaxTicks |-> IdleTick]
  /\ ack = <<>>
  /\ doseIntake = {}
  /\ notificationLog = {}
  /\ invActive = [rx \in Rx |-> TRUE]
  /\ response = NoResponse
  /\ pushed = NoMessage
  /\ remindedAt = {}
  /\ replied = NoReply
  /\ lineCalls = <<>>
  /\ patient = BoundPatients
  /\ activate = <<>>
  /\ calc = NoCalc

DateSpec == DateInit /\ [][PlainTickNext]_vars

\* ticks for p2 alone and acknowledgments of p2 at 07:00, when the slot of
\* rx3 begins, handled concurrently (LookupNext: the steps of ticks and
\* acknowledgments for a patient whose prescriptions have no quantity)
LookupInit ==
  /\ env = [CRON_SECRET |-> "s3cret", patients |-> <<"p2">>]
  /\ clock = StartClock
  /\ nAdv = 0
  /\ running = FALSE
  /\ startedAt = 0
  /\ tick = [r \in 1..RaceTicks |-> IdleTick]
  /\ ack = [a \in 1..MaxAcks |-> IdleAck]
  /\ doseIntake = {}
  /\ notificationLog = {}
  /\ invActive = [rx \in Rx |-> TRUE]
  /\ response = NoResponse
  /\ pushed = NoMessage
  /\ remindedAt = {}
  /\ replied = NoReply
  /\ lineCalls = <<>>
  /\ patient = BoundPatients
  /\ activate = <<>>
  /\ calc = NoCalc

LookupNext ==
  \/ \E r \in Ticks, req \in Requests : Tick(r, req[1], req[2])
  \/ \E r \in Ticks : TickPatients(r)
  \/ \E r \in Ticks : TickInvs(r)
  \/ \E r \in Ticks : TickTaken(r)
  \/ \E r \in Ticks : TickNotif(r)
  \/ \E r \in Ticks, sent \in BOOLEAN : TickPush(r, sent)
  \/ \E r \in Ticks : TickLog(r)
  \/ \E r \in Ticks : TickThrow(r)
  \/ \E a \in Acks : Ack(a, lineUserId[env.patients[1]])
  \/ \E a \in Acks : AckPatient(a)
  \/ \E a \in Acks : AckInvs(a)
  \/ \E a \in Acks : AckExists(a)
  \/ \E a \in Acks : AckCreate(a)
  \/ \E a \in Acks, accepted \in BOOLEAN : AckReply(a, accepted)
  \/ \E a \in Acks : AckThrow(a)
  \/ \E d \in AdvanceSteps : Advance(d)

LookupSpec == LookupInit /\ [][LookupNext]_vars

\* ticks for p4 alone and acknowledgments of p4 at 20:30 and at 22:30, when
\* the 22:00 slot of rx5 has begun
SlotInit ==
  /\ env = [CRON_SECRET |-> "s3cret", patients |-> <<"p4">>]
  /\ clock \in {LocalToday(20, 30), LocalToday(22, 30)}
  /\ nAdv = 0
  /\ running = FALSE
  /\ startedAt = 0
  /\ tick = [r \in 1..RaceTicks |-> IdleTick]
  /\ ack = [a \in 1..MaxAcks |-> IdleAck]
  /\ doseIntake = {}
  /\ notificationLog = {}
  /\ invActive = [rx \in Rx |-> TRUE]
  /\ response = NoResponse
  /\ pushed = NoMessage
  /\ remindedAt = {}
  /\ replied = NoReply
  /\ lineCalls = <<>>
  /\ patient = BoundPatients
  /\ activate = <<>>
  /\ calc = NoCalc

SlotSpec == SlotInit /\ [][LookupNext]_vars

\* authorized ticks for p1 alone and acknowledgments of p1, all at 07:00 and
\* handled concurrently: rx1 is a course of one pill, rx2 has no quantity
FrameInit ==
  /\ env = [CRON_SECRET |-> "s3cret", patients |-> <<"p1">>]
  /\ clock = StartClock
  /\ nAdv = 0
  /\ running = FALSE
  /\ startedAt = 0
  /\ tick = [r \in 1..RaceTicks |-> IdleTick]
  /\ ack = [a \in 1..MaxAcks |-> IdleAck]
  /\ doseIntake = {}
  /\ notificationLog = {}
  /\ invActive = [rx \in Rx |-> TRUE]
  /\ response = NoResponse
  /\ pushed = NoMessage
  /\ remindedAt = {}
  /\ replied = NoReply
  /\ lineCalls = <<>>
  /\ patient = BoundPatients
  /\ activate = <<>>
  /\ calc = NoCalc

FrameNext ==
  \/ \E r \in Ticks : Tick(r, "s3cret", undefined)
  \/ \E r \in Ticks : TickPatients(r)
  \/ \E r \in Ticks : TickInvs(r)
  \/ \E r \in Ticks : TickSum(r)
  \/ \E r \in Ticks, updated \in BOOLEAN : TickDeactivate(r, updated)
  \/ \E r \in Ticks, sent \in BOOLEAN : TickDonePush(r, sent)
  \/ \E r \in Ticks : TickTaken(r)
  \/ \E r \in Ticks : TickNotif(r)
  \/ \E r \in Ticks, sent \in BOOLEAN : TickPush(r, sent)
  \/ \E r \in Ticks : TickLog(r)
  \/ \E r \in Ticks : TickThrow(r)
  \/ \E a \in Acks : Ack(a, lineUserId[env.patients[1]])
  \/ \E a \in Acks : AckPatient(a)
  \/ \E a \in Acks : AckInvs(a)
  \/ \E a \in Acks : AckExists(a)
  \/ \E a \in Acks : AckCreate(a)
  \/ \E a \in Acks : AckSum(a)
  \/ \E a \in Acks, updated \in BOOLEAN : AckDeactivate(a, updated)
  \/ \E a \in Acks, accepted \in BOOLEAN : AckReply(a, accepted)
  \/ \E a \in Acks : AckThrow(a)

FrameSpec == FrameInit /\ [][FrameNext]_vars

\* ticks for p3 alone at 07:00, when the slot of rx4 begins
LeaseInit ==
  /\ env = [CRON_SECRET |-> "s3cret", patients |-> <<"p3">>]
  /\ clock = StartClock
  /\ nAdv = 0
  /\ running = FALSE
  /\ startedAt = 0
  /\ tick = [r \in 1..MaxTicks |-> IdleTick]
  /\ ack = <<>>
  /\ doseIntake = {}
  /\ notificationLog = {}
  /\ invActive = [rx \in Rx |-> TRUE]
  /\ response = NoResponse
  /\ pushed = NoMessage
  /\ remindedAt = {}
  /\ replied = NoReply
  /\ lineCalls = <<>>
  /\ patient = BoundPatients
  /\ activate = <<>>
  /\ calc = NoCalc

\* the call run r is suspended on returns or throws
RunStep(r) ==
  \/ TickPatients(r)
  \/ TickInvs(r)
  \/ TickTaken(r)
  \/ TickNotif(r)
  \/ \E sent \in BOOLEAN : TickPush(r, sent)
  \/ TickLog(r)
  \/ TickThrow(r)

\* every delivery and persistence call of a run eventually returns or throws
FairSpec ==
  /\ LeaseInit
  /\ [][PlainTickNext]_vars
  /\ \A r \in 1..MaxTicks : WF_vars(RunStep(r))

\* today's 20:00 bedtime slot of rx5 recorded as taken at 20:10, and a
\* NotificationLog row of that slot written at 22:05
BedTaken ==
  [patientId |-> "p4", prescriptionId |-> "rx5",
   slotDate |-> ymdToMidnightUTC(StartDay), hhmm |-> <<20, 0>>, pills |-> 2,
   takenAt |-> LocalToday(20, 10)]

BedLog ==
  [id |-> <<0, 1>>, patientId |-> "p4", prescriptionId |-> "rx5", hhmm |-> <<20, 0>>,
   slotDate |-> ymdToMidnightUTC(StartDay), sentAt |-> LocalToday(22, 5)]

\* ticks for p4 alone after 22:00, when the 22:00 slot of rx5 has begun
BedInit ==
  /\ env = [CRON_SECRET |-> "s3cret", patients |-> <<"p4">>]
  /\ clock \in {LocalToday(22, 10), LocalToday(22, 30)}
  /\ nAdv = 0
  /\ running = FALSE
  /\ startedAt = 0
  /\ tick = [r \in 1..MaxTicks |-> IdleTick]
  /\ ack = <<>>
  /\ doseIntake \in {{}, {BedTaken}}
  /\ notificationLog \in {{}, {BedLog}}
  /\ invActive = [rx \in Rx |-> TRUE]
  /\ response = NoResponse
  /\ pushed = NoMessage
  /\ remindedAt = {}
  /\ replied = NoReply
  /\ lineCalls = <<>>
  /\ patient = BoundPatients
  /\ activate = <<>>
  /\ calc = NoCalc

BedSpec == BedInit /\ [][PlainTickNext]_vars

\* ------------------------------------------------ the window calculator
\* the values of enum MealRelation
Periods ==
  {"BEFORE_BREAKFAST", "AFTER_BREAKFAST", "BEFORE_LUNCH", "AFTER_LUNCH",
   "BEFORE_DINNER", "AFTER_DINNER", "BEFORE_BED", "CUSTOM"}

\* slot times: half an hour apart, an hour apart, and within an hour of
\* midnight
SlotTimes == {<<7, 0>>, <<7, 30>>, <<8, 0>>, <<23, 30>>}

\* minutes of the day: the day's ends and, around each slot time, the minute
\* before it, the time itself, and the ends of its hour of grace
Minutes ==
  {m \in {0, MinutesPerDay - 1}
          \cup {hhmmToMinutes(t) + d : t \in SlotTimes, d \in {-1, 0, 59, 60}} :
     m >= 0 /\ m < MinutesPerDay}

\* active DoseSchedule rows of one prescription
SlotRows == [hhmm : SlotTimes, period : Periods, pills : {1}, isActive : {TRUE}]

RECURSIVE SlotSets(_)
\* the schedules of at most n rows
SlotSets(n) ==
  IF n = 0 THEN {{}}
  ELSE SlotSets(n - 1) \cup {S \cup {x} : S \in SlotSets(n - 1), x \in SlotRows}

\* the window loops of the tick and of the webhook at minute nowMin over the
\* schedule: the slots filtered and sorted, each slot's window, and the slot
\* chosen as current
Calc(nowMin) ==
  /\ calc.slots # {}
  /\ LET sorted == SortByHhmm({s \in calc.slots : s.isActive})
     IN  calc' = [slots |-> calc.slots,
                  minute |-> nowMin,
                  current |-> CurrentSlot(sorted, nowMin),
                  windows |-> [i \in 1..Len(sorted) |->
                     computeWindowForSlot(
                       sorted[i].hhmm, sorted[i].period,
                       IF i + 1 <= Len(sorted) THEN sorted[i + 1].hhmm ELSE NoHHMM)],
                  currentOfWebhook |-> CurrentSlotOfWebhook(sorted, nowMin),
                  windowsOfWebhook |-> [i \in 1..Len(sorted) |->
                     computeWindowForSlotOfWebhook(
                       sorted[i].hhmm, sorted[i].period,
                       IF i + 1 <= Len(sorted) THEN sorted[i + 1].hhmm ELSE NoHHMM)]]
  /\ UNCHANGED <<lineCalls, patient, activate, env, clock, nAdv, running, startedAt, tick, ack,
                 doseIntake, notificationLog, invActive, response, pushed,
                 remindedAt, replied>>

WindowInit ==
  /\ env = [CRON_SECRET |-> "s3cret", patients |-> <<>>]
  /\ clock = StartClock
  /\ nAdv = 0
  /\ running = FALSE
  /\ startedAt = 0
  /\ tick = <<>>
  /\ ack = <<>>
  /\ doseIntake = {}
  /\ notificationLog = {}
  /\ invActive = [rx \in Rx |-> TRUE]
  /\ response = NoResponse
  /\ pushed = NoMessage
  /\ remindedAt = {}
  /\ replied = NoReply
  /\ lineCalls = <<>>
  /\ patient = BoundPatients
  /\ activate = <<>>
  /\ calc \in {[NoCalc EXCEPT !.slots = S] : S \in SlotSets(MaxSlots)}

WindowNext == \E nowMin \in Minutes : Calc(nowMin)

WindowSpec == WindowInit /\ [][WindowNext]_vars

\* ------------------------------------------- the LINE message operations
\* what fetch gives: the HTTP status of the platform's answer, or 0 when
\* fetch itself rejects (no answer)
Statuses == {0, 200, 204, 299, 300, 400, 401, 429, 500}

\* Response.ok
resOk(status) == status >= 200 /\ status <= 299

\* pushText: await fetch(...); if (!res.ok) throw new Error(...)
pushText(status) ==
  IF status = 0 THEN "threw"
  ELSE IF ~resOk(status) THEN "threw"
  ELSE "returned"

\* replyTo: await fetch(...) and nothing else
replyTo(status) == IF status = 0 THEN "threw" ELSE "returned"

\* pushText is called and the platform answers with status
PushText(status) ==
  /\ Len(lineCalls) < MaxCalls
  /\ lineCalls' = Append(lineCalls, [op |-> "push", status |-> status,
                                     outcome |-> pushText(status)])
  /\ UNCHANGED <<calc, patient, activate, env, clock, nAdv, running, startedAt, tick, ack, doseIntake,
                 notificationLog, invActive, response, pushed, remindedAt, replied>>

\* replyTo is called and the platform answers with status
ReplyTo(status) ==
  /\ Len(lineCalls) < MaxCalls
  /\ lineCalls' = Append(lineCalls, [op |-> "reply", status |-> status,
                                     outcome |-> replyTo(status)])
  /\ UNCHANGED <<calc, patient, activate, env, clock, nAdv, running, startedAt, tick, ack, doseIntake,
                 notificationLog, invActive, response, pushed, remindedAt, replied>>

MessageInit ==
  /\ env = [CRON_SECRET |-> "s3cret", patients |-> <<>>]
  /\ clock = StartClock
  /\ nAdv = 0
  /\ running = FALSE
  /\ startedAt = 0
  /\ tick = <<>>
  /\ ack = <<>>
  /\ doseIntake = {}
  /\ notificationLog = {}
  /\ invActive = [rx \in Rx |-> TRUE]
  /\ response = NoResponse
  /\ pushed = NoMessage
  /\ remindedAt = {}
  /\ replied = NoReply
  /\ calc = NoCalc
  /\ lineCalls = <<>>
  /\ patient = BoundPatients
  /\ activate = <<>>

MessageNext ==
  \/ \E status \in Statuses : PushText(status)
  \/ \E status \in Statuses : ReplyTo(status)

MessageSpec == MessageInit /\ [][MessageNext]_vars

\* ---------------------------------------------------------- activation
\* One POST api/p/:opaqueId/activate handled by
\* PrescriptionsController.activate: pc is the await it is suspended on, rx
\* the prescription found, status the HTTP status of the answer.
Activations == DOMAIN activate

IdleActivate ==
  [pc |-> "idle", opaqueId |-> <<>>, lineUserId |-> "", rx |-> "", status |-> 0]

\* Prescription.opaqueId
opaqueIdOf(rx) == <<"opaque", rx>>

\* the opaque ids of the requests: of rx1 (patient p1), of rx2 (patient p1), of
\* rx3 (patient p2), and one of no prescription
OpaqueIds == {opaqueIdOf("rx1"), opaqueIdOf("rx2"), opaqueIdOf("rx3"), <<"opaque", "none">>}

\* body.lineUserId of the requests, and String(...).trim() on them
BodyIds == {"U1", " U1 ", "U9", "", " "}
trimId(raw) == IF raw = " U1 " THEN "U1" ELSE IF raw = " " THEN "" ELSE raw

\* prescription.findFirst({ where: { opaqueId } }); "" when there is none
RxOfOpaque(opaqueId) ==
  IF \E rx \in Rx : opaqueIdOf(rx) = opaqueId
  THEN CHOOSE rx \in Rx : opaqueIdOf(rx) = opaqueId
  ELSE ""

\* the request ends with an HTTP status
Answered(c, status) ==
  activate' = [activate EXCEPT ![c] = [@ EXCEPT !.pc = "done", !.status = status]]

\* the request arrives: if (!lineUserId) throw new BadRequestException
Activate(c, opaqueId, rawId) ==
  /\ activate[c].pc = "idle"
  /\ \A b \in Activations : b < c => activate[b].pc # "idle"
  /\ activate' = [activate EXCEPT ![c] =
       IF trimId(rawId) = ""
       THEN [@ EXCEPT !.pc = "done", !.opaqueId = opaqueId, !.status = 400]
       ELSE [@ EXCEPT !.pc = "find", !.opaqueId = opaqueId,
                      !.lineUserId = trimId(rawId)]]
  /\ UNCHANGED <<calc, lineCalls, patient, env, clock, nAdv, running, startedAt, tick, ack,
                 doseIntake, notificationLog, invActive, response, pushed, remindedAt,
                 replied>>

\* prescription.findFirst returned with rx.patient: not found, bound to
\* another account, unbound, or bound to this account
ActivateFind(c) ==
  /\ activate[c].pc = "find"
  /\ LET rx == RxOfOpaque(activate[c].opaqueId)
     IN  IF rx = "" THEN Answered(c, 404)
         ELSE IF patient[Prescription[rx].patientId].lineUserId = ""
         THEN activate' = [activate EXCEPT ![c] = [@ EXCEPT !.pc = "bind", !.rx = rx]]
         ELSE IF patient[Prescription[rx].patientId].lineUserId # activate[c].lineUserId
         THEN Answered(c, 400)
         ELSE activate' = [activate EXCEPT ![c] = [@ EXCEPT !.pc = "recent", !.rx = rx]]
  /\ UNCHANGED <<calc, lineCalls, patient, env, clock, nAdv, running, startedAt, tick, ack,
                 doseIntake, notificationLog, invActive, response, pushed, remindedAt,
                 replied>>

\* patient.update({ lineUserId, recentActivatedPrescriptionId }) returned, or
\* threw on the unique index Patient_lineUserId_key
ActivateBind(c) ==
  /\ activate[c].pc = "bind"
  /\ LET p == Prescription[activate[c].rx].patientId
     IN  IF \E q \in PatientIds \ {p} : patient[q].lineUserId = activate[c].lineUserId
         THEN Answered(c, 500) /\ patient' = patient
         ELSE /\ patient' = [patient EXCEPT ![p] =
                    [lineUserId |-> activate[c].lineUserId,
                     recentActivatedPrescriptionId |-> activate[c].rx]]
              /\ activate' = [activate EXCEPT ![c] = [@ EXCEPT !.pc = "upsert"]]
  /\ UNCHANGED <<calc, lineCalls, env, clock, nAdv, running, startedAt, tick, ack,
                 doseIntake, notificationLog, invActive, response, pushed, remindedAt,
                 replied>>

\* patient.update({ recentActivatedPrescriptionId }) returned
ActivateRecent(c) ==
  /\ activate[c].pc = "recent"
  /\ patient' = [patient EXCEPT ![Prescription[activate[c].rx].patientId] =
                   [@ EXCEPT !.recentActivatedPrescriptionId = activate[c].rx]]
  /\ activate' = [activate EXCEPT ![c] = [@ EXCEPT !.pc = "upsert"]]
  /\ UNCHANGED <<calc, lineCalls, env, clock, nAdv, running, startedAt, tick, ack,
                 doseIntake, notificationLog, invActive, response, pushed, remindedAt,
                 replied>>

\* medicationInventory.upsert({ isActive: true }) returned
ActivateUpsert(c) ==
  /\ activate[c].pc = "upsert"
  /\ invActive' = [invActive EXCEPT ![activate[c].rx] = TRUE]
  /\ activate' = [activate EXCEPT ![c] = [@ EXCEPT !.pc = "push"]]
  /\ UNCHANGED <<calc, lineCalls, patient, env, clock, nAdv, running, startedAt, tick, ack,
                 doseIntake, notificationLog, response, pushed, remindedAt, replied>>

\* pushText of the summary returned or threw (the throw is logged); the
\* request is answered { ok: true }
ActivatePush(c, sent) ==
  /\ activate[c].pc = "push"
  /\ IF sent
     THEN Push([run |-> 0, patientId |-> Prescription[activate[c].rx].patientId,
                to |-> activate[c].lineUserId, kind |-> "summary",
                rxId |-> activate[c].rx, slots |-> {}, at |-> clock])
     ELSE UNCHANGED <<pushed, remindedAt>>
  /\ Answered(c, 201)
  /\ UNCHANGED <<calc, lineCalls, patient, env, clock, nAdv, running, startedAt, tick, ack,
                 doseIntake, notificationLog, invActive, response, replied>>

\* a persistence call of activate threw: the request is answered 500
ActivateThrow(c) ==
  /\ activate[c].pc \in {"find", "bind", "recent", "upsert"}
  /\ Answered(c, 500)
  /\ UNCHANGED <<calc, lineCalls, patient, env, clock, nAdv, running, startedAt, tick, ack,
                 doseIntake, notificationLog, invActive, response, pushed, remindedAt,
                 replied>>

\* p1 and p2 are not bound to a LINE account yet, and rx1 is not in the
\* inventory
ActivateInit ==
  /\ env = [CRON_SECRET |-> "s3cret", patients |-> <<>>]
  /\ clock = StartClock
  /\ nAdv = 0
  /\ running = FALSE
  /\ startedAt = 0
  /\ tick = <<>>
  /\ ack = <<>>
  /\ doseIntake = {}
  /\ notificationLog = {}
  /\ invActive = [rx \in Rx |-> rx # "rx1"]
  /\ response = NoResponse
  /\ pushed = NoMessage
  /\ remindedAt = {}
  /\ replied = NoReply
  /\ calc = NoCalc
  /\ lineCalls = <<>>
  /\ patient = [p \in PatientIds |->
                  IF p \in {"p1", "p2"}
                  THEN [lineUserId |-> "", recentActivatedPrescriptionId |-> ""]
                  ELSE BoundPatients[p]]
  /\ activate = [c \in 1..MaxActivates |-> IdleActivate]

ActivateNext ==
  \/ \E c \in Activations, opaqueId \in OpaqueIds, rawId \in BodyIds :
       Activate(c, opaqueId, rawId)
  \/ \E c \in Activations : ActivateFind(c)
  \/ \E c \in Activations : ActivateBind(c)
  \/ \E c \in Activations : ActivateRecent(c)
  \/ \E c \in Activations : ActivateUpsert(c)
  \/ \E c \in Activations, sent \in BOOLEAN : ActivatePush(c, sent)
  \/ \E c \in Activations : ActivateThrow(c)

\* activate requests handled concurrently
ActivateSpec == ActivateInit /\ [][ActivateNext]_vars

\* activate requests handled one after the other
SeqActivateNext ==
  /\ ActivateNext
  /\ Cardinality({c \in Activations : activate'[c].pc \notin {"idle", "done"}}) <= 1

SeqActivateSpec == ActivateInit /\ [][SeqActivateNext]_vars

\* ================================================================= claims
Executing(r) == tick[r].pc \notin {"idle", "done"}
Stepped(r) == tick'[r] # tick[r]
Arrived(r) == tick[r].pc = "idle" /\ tick'[r].pc # "idle"
Returned(r) == Executing(r) /\ tick'[r].pc = "done"
CadenceMs == 30 * 60 * 1000
Reminder(m) == m.kind = "reminder"

\* the secrets of the request that arrives in this step
ArrivingReq(r) ==
  IF tick'[r].pc = "done" THEN response'.req ELSE tick'[r].req

\* neither secret is present, non-empty and equal to the configured one
BadSecrets(req) ==
  \A i \in {1, 2} :
    req[i] = undefined \/ req[i] = "" \/ req[i] # env.CRON_SECRET

\* ---------------------------------------------------------------------
\* C1: at most one run is executing processTick at any time, including
\* runs admitted while an earlier run is still suspended.
C1_SingleFlight ==
  Cardinality({r \in DOMAIN tick : Executing(r)}) <= 1

\* ---------------------------------------------------------------------
\* C2: an authorized tick is rejected with reason 'cron-is-running', without
\* running processTick and with the lease unchanged, exactly when a run is
\* marked running and started less than 55 000 ms ago; otherwise it takes the
\* lease (running = true, startedAt = now) and runs processTick.
C2_Admission ==
  [][\A r \in DOMAIN tick :
       (Arrived(r) /\ ~BadSecrets(ArrivingReq(r))) =>
         IF running /\ clock - startedAt < 55000
         THEN /\ tick'[r].pc = "done"
              /\ response' = [tick |-> r, req |-> ArrivingReq(r), ret |-> RetBusy]
              /\ UNCHANGED <<running, startedAt>>
         ELSE /\ tick'[r].pc = "patients"
              /\ running' = TRUE
              /\ startedAt' = clock
              /\ response' = response]_vars

\* a request was rejected as busy while a run holds the lease
C2_Witness ==
  /\ response.ret.reason = "cron-is-running"
  /\ running

\* ---------------------------------------------------------------------
\* C3: a tick that took the lease resets it (running = false, startedAt = 0)
\* in the step in which it returns, whether processTick completed or threw;
\* a throw is answered with {ok: false, error}.
C3_Release ==
  [][\A r \in DOMAIN tick :
       Returned(r) =>
         /\ running' = FALSE
         /\ startedAt' = 0
         /\ response'.tick = r
         /\ \/ response'.ret.ok /\ response'.ret.error = ""
               /\ tick[r].pi = Len(env.patients)
            \/ ~response'.ret.ok /\ response'.ret.error # ""
               /\ response'.ret.reason = ""]_vars

\* a run ended by a throw, and the lease is idle
C3_Witness ==
  /\ response.ret.error # ""
  /\ ~running
  /\ startedAt = 0

\* ---------------------------------------------------------------------
\* C4: a tick whose query secret and header are both missing, empty or
\* different from CRON_SECRET answers {ok: false, reason: 'forbidden'} and
\* changes neither the lease nor any table, and delivers nothing.
C4_Forbidden ==
  [][\A r \in DOMAIN tick :
       (Arrived(r) /\ BadSecrets(ArrivingReq(r))) =>
         /\ tick'[r].pc = "done"
         /\ response' = [tick |-> r, req |-> ArrivingReq(r), ret |-> RetForbidden]
         /\ UNCHANGED <<running, startedAt, doseIntake, notificationLog,
                        invActive, pushed, remindedAt, replied>>]_vars

\* an empty secret was presented to a server whose CRON_SECRET is empty
C4_Witness ==
  /\ response.ret.reason = "forbidden"
  /\ response.req = <<"", "">>
  /\ env.CRON_SECRET = ""

\* ---------------------------------------------------------------------
\* C5: once a DoseIntake row exists for a key, no reminder containing that
\* key's slot is delivered, over any interleaving of ticks and
\* acknowledgments.
C5_NoReminderAfterIntake ==
  [][(pushed' # pushed /\ Reminder(pushed')) =>
       \A k \in pushed'.slots : ~IntakeExists(k)]_vars

\* ---------------------------------------------------------------------
\* C6 as stated: no two reminders for one key are delivered less than 30
\* minutes apart.
C6_NeverWithinCadence ==
  [][(pushed' # pushed /\ Reminder(pushed')) =>
       \A e \in remindedAt' :
         e.key \in pushed'.slots => pushed'.at - e.at >= CadenceMs]_vars

\* C6 as amended: a tick whose cadence lookup finds a NotificationLog row of
\* the key that is less than 30 minutes old does not put the slot in its
\* message; and a reminder message holds exactly the run's due slots.
C6_CadenceGate ==
  [][\A r \in DOMAIN tick :
       /\ (tick[r].pc = "notif" /\ Stepped(r)
             /\ \E n \in notificationLog :
                  KeyOf(n) = TickKey(tick[r]) /\ clock - n.sentAt < CadenceMs)
          => /\ TickKey(tick[r])
                  \notin SlotKeys(env.patients[tick[r].pi], tick'[r].dueSlots)
             /\ tick'[r].dueSlots = tick[r].dueSlots \/ tick'[r].dueSlots = <<>>
       /\ (tick[r].pc = "push" /\ Stepped(r) /\ pushed' # pushed)
          => pushed'.slots = SlotKeys(env.patients[tick[r].pi], tick[r].dueSlots)]_vars

\* a later run found p1's reminders logged 55 s earlier, sent p1 nothing and
\* went on to the next patient
C6_Witness ==
  \E r \in DOMAIN tick, n \in notificationLog :
    /\ n.id[1] # r
    /\ n.patientId = "p1"
    /\ clock - n.sentAt = 55000
    /\ tick[r].pc = "invs"
    /\ tick[r].pi = 2
    /\ pushed.run # r

\* ---------------------------------------------------------------------
\* C7: for every inventory-active prescription of a linked patient that is
\* within its date range and not complete, a current slot with no DoseIntake
\* for today's key and no NotificationLog younger than 30 minutes is in the
\* message the tick sends to the patient.
Eligible(rx, now) ==
  /\ Len(schedules(rx)) > 0
  /\ formatYMDInTz(Prescription[rx].startDate, TzOf(rx)) <= formatYMDInTz(now, TzOf(rx))
  /\ \/ Prescription[rx].endDate = null
     \/ formatYMDInTz(now, TzOf(rx)) <= formatYMDInTz(Prescription[rx].endDate, TzOf(rx))

HasCurrent(rx, now) ==
  CurrentSlot(schedules(rx), nowInTz(now, TzOf(rx)).minutes) # 0

\* the prescriptions a step of run r passes over without a lookup
PassedOver(r) ==
  LET snapshot == IF tick[r].pc = "invs" THEN ActiveInvs(env.patients[tick[r].pi])
                  ELSE tick[r].invs
      from == IF tick[r].pc = "invs" THEN 1 ELSE tick[r].ii + 1
      to == IF tick'[r].pc \notin {"push", "invs"} /\ tick'[r].pi = tick[r].pi
            THEN tick'[r].ii - 1 ELSE Len(snapshot)
  IN  {snapshot[j] : j \in from..to}

C7_DueSlotIncluded ==
  [][\A r \in DOMAIN tick :
       (Stepped(r) /\ Executing(r) /\ tick'[r].pc # "done") =>
         \* every prescription of the patient is looked at: one that is
         \* passed over is out of range or has no current slot
         /\ tick[r].pc \in {"invs", "sum", "donePush", "taken", "notif"}
            => \A rx \in PassedOver(r) :
                 /\ Prescription[rx].quantityTotal # null => ~Eligible(rx, clock)
                 /\ Prescription[rx].quantityTotal = null
                      => ~(Eligible(rx, clock) /\ HasCurrent(rx, clock))
         \* a course that is not complete goes on to its current slot
         /\ (tick[r].pc = "sum"
               /\ consumed(TickRx(tick[r])) < Prescription[TickRx(tick[r])].quantityTotal
               /\ HasCurrent(TickRx(tick[r]), tick[r].at))
            => /\ tick'[r].pc = "taken"
               /\ tick'[r].ii = tick[r].ii
               /\ tick'[r].cur = CurrentSlot(schedules(TickRx(tick[r])),
                                             nowInTz(tick[r].at, TickTz(tick[r])).minutes)
         \* not taken: on to the cadence check
         /\ (tick[r].pc = "taken" /\ ~IntakeExists(TickKey(tick[r])))
            => /\ tick'[r].pc = "notif"
               /\ tick'[r].ii = tick[r].ii
               /\ tick'[r].cur = tick[r].cur
         \* no log, or the latest one at least 30 minutes old: due
         /\ (tick[r].pc = "notif"
               /\ \A n \in notificationLog :
                    KeyOf(n) = TickKey(tick[r]) => clock - n.sentAt >= CadenceMs)
            => TickKey(tick[r])
                 \in SlotKeys(env.patients[tick[r].pi], tick'[r].dueSlots)
         \* a due slot stays due until the patient's message is sent
         /\ tick'[r].pi = tick[r].pi
            => SlotKeys(env.patients[tick[r].pi], tick[r].dueSlots)
                 \subseteq SlotKeys(env.patients[tick[r].pi], tick'[r].dueSlots)
         \* the message holds the due slots and goes to the patient
         /\ (tick[r].pc = "push" /\ pushed' # pushed)
            => /\ pushed'.slots = SlotKeys(env.patients[tick[r].pi], tick[r].dueSlots)
               /\ pushed'.to = lineUserId[env.patients[tick[r].pi]]
               /\ pushed'.slots # {}]_vars

\* a slot reminded and logged by one run is reminded again by a later run,
\* exactly 30 minutes after the log row
C7_Witness ==
  /\ Reminder(pushed)
  /\ \E k \in pushed.slots, n \in notificationLog :
       /\ KeyOf(n) = k
       /\ n.id[1] # pushed.run
       /\ pushed.at - n.sentAt = CadenceMs

\* ---------------------------------------------------------------------
\* C8: NotificationLog rows are written only by a run whose message with
\* those slots was delivered to that patient in the same run; a failed
\* delivery writes no row and the run leaves the patient.
C8_LogAfterDelivery ==
  [][\A r \in DOMAIN tick :
       /\ notificationLog \subseteq notificationLog'
       /\ \A n \in notificationLog' \ notificationLog :
            n.id[1] = r =>
              /\ tick[r].pc = "log"
              /\ tick[r].sent
              /\ n.patientId = env.patients[tick[r].pi]
              /\ KeyOf(n) \in SlotKeys(n.patientId, tick[r].dueSlots)
              /\ n.sentAt = clock
       /\ (tick'[r].sent /\ ~tick[r].sent)
          => /\ pushed' # pushed
             /\ pushed'.run = r
             /\ pushed'.patientId = env.patients[tick[r].pi]
             /\ pushed'.slots = SlotKeys(pushed'.patientId, tick'[r].dueSlots)
       /\ (tick[r].sent /\ Stepped(r)) => tick[r].pc = "log"
       /\ (tick[r].pc = "push" /\ Stepped(r) /\ pushed' = pushed)
          => /\ notificationLog' = notificationLog
             /\ ~tick'[r].sent
             /\ tick'[r].pc \in {"invs", "done"}
             /\ tick'[r].pc = "invs" => tick'[r].pi = tick[r].pi + 1]_vars

\* rows of the message that was delivered last are in the table
C8_Witness ==
  /\ Reminder(pushed)
  /\ \E n \in notificationLog :
       n.id[1] = pushed.run /\ KeyOf(n) \in pushed.slots /\ n.sentAt >= pushed.at

\* ---------------------------------------------------------------------
\* C9: a delivery failure never aborts the run: the run goes on to the next
\* patient, or returns ok: true after the last one; no error response comes
\* from a delivery.
C9_DeliveryFailureLocal ==
  [][\A r \in DOMAIN tick :
       /\ (tick[r].pc = "push" /\ Stepped(r) /\ pushed' = pushed)
          => IF tick[r].pi < Len(env.patients)
             THEN /\ tick'[r].pc = "invs"
                  /\ tick'[r].pi = tick[r].pi + 1
                  /\ tick'[r].users = tick[r].users
                  /\ UNCHANGED <<running, startedAt, response>>
             ELSE /\ tick'[r].pc = "done"
                  /\ response'.tick = r
                  /\ response'.ret.ok
       /\ (tick[r].pc = "donePush" /\ Stepped(r) /\ pushed' = pushed)
          => \/ tick'[r].pc \notin {"done"}
             \/ response'.ret.ok
       /\ (Returned(r) /\ ~response'.ret.ok) => tick[r].pc \in Uncaught]_vars

\* the first run's delivery to p1 failed and the same run delivered p2's
\* reminder
C9_Witness ==
  /\ Reminder(pushed)
  /\ pushed.run = 1
  /\ pushed.patientId = "p2"
  /\ \A e \in remindedAt : e.key.patientId # "p1"
  /\ doseIntake = {}

\* ---------------------------------------------------------------------
\* C10: a failure of the NotificationLog batch write ends only that
\* patient's iteration: the run goes on to the patients that follow.
C10_LogFailureLocal ==
  [][\A r \in DOMAIN tick :
       (tick[r].pc = "log" /\ Stepped(r) /\ notificationLog' = notificationLog
          /\ tick[r].pi < Len(env.patients))
       => /\ tick'[r].pc = "invs"
          /\ tick'[r].pi = tick[r].pi + 1]_vars

\* the NotificationLog rows run r adds in this step
NewRows(r) == {n \in notificationLog' \ notificationLog : n.id[1] = r}

\* ---------------------------------------------------------------------
\* C11: the NotificationLog rows of a delivered message are written
\* all-or-nothing: the run's batch write adds either exactly one row per due
\* slot of the message or no row at all, a run adds rows in no other step,
\* and after the write the run has left the patient.
C11_AllOrNothing ==
  [][\A r \in DOMAIN tick :
       /\ NewRows(r) # {} => tick[r].pc = "log"
       /\ (tick[r].pc = "log" /\ Stepped(r)) =>
            /\ tick[r].sent
            /\ \/ notificationLog' = notificationLog
               \/ /\ Cardinality(NewRows(r)) = Len(tick[r].dueSlots)
                  /\ \A k \in SlotKeys(env.patients[tick[r].pi], tick[r].dueSlots) :
                       Cardinality({n \in NewRows(r) : KeyOf(n) = k}) = 1
                  /\ \A n \in NewRows(r) :
                       /\ n.patientId = env.patients[tick[r].pi]
                       /\ KeyOf(n) \in SlotKeys(n.patientId, tick[r].dueSlots)
            /\ \/ tick'[r].pc = "done"
               \/ tick'[r].pc = "invs" /\ tick'[r].pi = tick[r].pi + 1]_vars

\* one run wrote both rows of p1's two-slot message
C11_Witness ==
  \E r \in DOMAIN tick :
    Cardinality({n \in notificationLog : n.id[1] = r /\ n.patientId = "p1"}) = 2

\* ---------------------------------------------------------------------
\* C12: a run collects one item per due prescription slot of the patient,
\* sends the patient one reminder message holding all of them, and its log
\* write adds one row per item: with rx1 and rx2 of p1 both due, one message
\* with two items and two rows.
C12_OneMessagePerPatient ==
  [][\A r \in DOMAIN tick :
       \* a slot found due is appended to the items collected so far
       /\ (tick[r].pc = "notif" /\ Stepped(r) /\ tick'[r].pc # "done"
             /\ \A n \in notificationLog :
                  KeyOf(n) = TickKey(tick[r]) => clock - n.sentAt >= CadenceMs)
          => /\ Len(tick'[r].dueSlots) = Len(tick[r].dueSlots) + 1
             /\ SubSeq(tick'[r].dueSlots, 1, Len(tick[r].dueSlots)) = tick[r].dueSlots
             /\ tick'[r].dueSlots[Len(tick'[r].dueSlots)].rxId = TickRx(tick[r])
             /\ tick'[r].dueSlots[Len(tick'[r].dueSlots)].slotHhmm = TickSlot(tick[r]).hhmm
       \* the items are of different prescriptions
       /\ \A i, j \in 1..Len(tick'[r].dueSlots) :
            i # j => tick'[r].dueSlots[i].rxId # tick'[r].dueSlots[j].rxId
       \* the message holds every item, and is the only one for the patient
       /\ (Stepped(r) /\ pushed' # pushed /\ Reminder(pushed'))
          => /\ tick[r].pc = "push"
             /\ ~tick[r].sent
             /\ pushed'.to = lineUserId[env.patients[tick[r].pi]]
             /\ pushed'.slots = SlotKeys(env.patients[tick[r].pi], tick[r].dueSlots)
             /\ Cardinality(pushed'.slots) = Len(tick[r].dueSlots)
             /\ tick'[r].pc = "log"
             /\ tick'[r].sent
             /\ tick'[r].dueSlots = tick[r].dueSlots
       /\ (tick[r].sent /\ Stepped(r))
          => /\ pushed' = pushed
             /\ tick'[r].pc = "done" \/ tick'[r].pi = tick[r].pi + 1
       \* one row per item
       /\ NewRows(r) # {}
          => /\ Cardinality(NewRows(r)) = Len(tick[r].dueSlots)
             /\ {KeyOf(n) : n \in NewRows(r)}
                  = SlotKeys(env.patients[tick[r].pi], tick[r].dueSlots)]_vars

\* p1's latest message holds the 07:00 slots of rx1 and rx2, and the run that
\* sent it wrote a row for each
C12_Witness ==
  /\ Reminder(pushed)
  /\ pushed.patientId = "p1"
  /\ {k.prescriptionId : k \in pushed.slots} = {"rx1", "rx2"}
  /\ \A k \in pushed.slots :
       Cardinality({n \in notificationLog :
                      n.id[1] = pushed.run /\ KeyOf(n) = k}) = 1

\* the course of rx is complete: the pills logged reach quantityTotal
Complete(rx) ==
  /\ Prescription[rx].quantityTotal # null
  /\ consumed(rx) >= Prescription[rx].quantityTotal

C14_NoticeAtMostOnce ==
  [][\A r \in DOMAIN tick :
       (tick[r].pc = "donePush" /\ Stepped(r)
          /\ pushed' # pushed /\ pushed'.kind = "complete")
       => ~(pushed.kind = "complete" /\ pushed.rxId = pushed'.rxId)]_vars

\* the DoseIntake rows added in this step
NewIntakes == doseIntake' \ doseIntake

\* the keys of the slots that are current at instant now for patient p
CurrentKeys(p, now) ==
  LET invs == ActiveInvs(p)
      cur(rx) == CurrentSlotOfWebhook(schedules(rx),
                                      hhmmToMinutes(formatHHMMInTz(now, TzOf(rx))))
  IN  {Key(p, invs[i],
           ymdToMidnightUTC(formatYMDInTz(now, TzOf(invs[i]))),
           schedules(invs[i])[cur(invs[i])].hhmm) :
         i \in {j \in 1..Len(invs) : cur(invs[j]) # 0}}

\* acknowledgment b is the second of two calls in immediate succession: the
\* call before it was for the same user, went through its loop and replied,
\* no time has passed since, and every slot that is current was recorded
\* before b could record it
SecondCall(b) ==
  /\ ack[b].pc \notin {"idle", "done"}
  /\ replied.ack = b - 1
  /\ replied.to = ack[b].uid
  /\ replied.text \in {"recorded", "nothing-to-record"}
  /\ replied.at = clock
  /\ ack[b].takenList = <<>>
  /\ \A k \in CurrentKeys(ack[b].patient, clock) : IntakeExists(k)

\* ---------------------------------------------------------------------
\* C15: an acknowledgment creates a DoseIntake only for a key that has none;
\* and the second of two calls in immediate succession for the same patient
\* finds every current slot recorded, creates no row and replies that there
\* is nothing to record.
C15_AckIdempotent ==
  [][/\ \A d \in NewIntakes : \A e \in doseIntake : KeyOf(e) # KeyOf(d)
     /\ Cardinality(NewIntakes) <= 1
     /\ \A b \in DOMAIN ack :
          (SecondCall(b) /\ ack'[b] # ack[b]) =>
            /\ doseIntake' = doseIntake
            /\ ack'[b].pc # "create"
            /\ ack'[b].takenList = <<>>
            /\ ack'[b].pc = "reply" => ack'[b].text = "nothing-to-record"
            /\ replied' # replied =>
                 /\ replied'.ack = b
                 /\ replied'.text = "nothing-to-record"
                 /\ replied'.takenList = <<>>]_vars

\* the first call recorded p1's 07:00 slots and the second, at the same
\* instant, was answered with the nothing-to-record reply
C15_Witness ==
  /\ replied.ack = 2
  /\ replied.to = "U1"
  /\ replied.text = "nothing-to-record"
  /\ {d.prescriptionId : d \in {e \in doseIntake : e.takenAt = replied.at}}
       = {"rx1", "rx2"}

\* the pills of the schedule slot a key names
PillsOf(k) ==
  (CHOOSE s \in DoseSchedule[k.prescriptionId] : s.isActive /\ s.hhmm = k.hhmm).pills

RECURSIVE PillsOnce(_)
\* the pills of a set of keys, each key counted once
PillsOnce(K) ==
  IF K = {} THEN 0
  ELSE LET k == CHOOSE x \in K : TRUE IN PillsOf(k) + PillsOnce(K \ {k})

\* ---------------------------------------------------------------------
\* C16: under any interleaving of concurrently handled acknowledgments at
\* most one DoseIntake row exists per (patient, prescription, date, slot)
\* key, the pills logged for a prescription count each of its recorded slots
\* once, and an acknowledgment lists a slot as recorded only when its own
\* create added the key's row.
C16_OneIntakePerKey ==
  [][/\ \A d, e \in doseIntake' : KeyOf(d) = KeyOf(e) => d = e
     /\ \A rx \in Rx :
          SumPills({d \in doseIntake' : d.prescriptionId = rx})
            = PillsOnce({KeyOf(d) : d \in {e \in doseIntake' : e.prescriptionId = rx}})
     /\ \A a \in DOMAIN ack :
          Len(ack'[a].takenList) > Len(ack[a].takenList) =>
            /\ ack[a].pc = "create"
            /\ ~IntakeExists(AckKey(ack[a]))
            /\ Cardinality(NewIntakes) = 1
            /\ \A d \in NewIntakes : KeyOf(d) = AckKey(ack[a])
            /\ ack'[a].takenList = Append(ack[a].takenList, AckKey(ack[a]))]_vars

\* two acknowledgments of one patient passed the lookup for the same key; one
\* has created the row and the other is about to call create
C16_Witness ==
  \E a, b \in DOMAIN ack :
    /\ a # b
    /\ ack[a].pc = "create"
    /\ IntakeExists(AckKey(ack[a]))
    /\ Len(ack[b].takenList) > 0
    /\ ack[b].takenList[1] = AckKey(ack[a])

\* ---------------------------------------------------------------------
\* C17: an acknowledgment whose handling fails (a persistence call throws,
\* the unique index included) is answered with the generic
\* could-not-process reply.
C17_FailureReply ==
  [][\A a \in DOMAIN ack :
       (ack[a].pc \in {"patient", "invs", "exists", "create", "sum"}
          /\ ack'[a].pc = "done")
       => /\ replied'.ack = a
          /\ replied'.text = "could-not-process"]_vars

\* the schedule under evaluation, as the calculator sorts it
CalcSorted == SortByHhmm(calc.slots)
Evaluated == calc.windows # <<>>

\* the window of slot i contains minute m
InWindow(i, m) == m >= calc.windows[i].winStart /\ m < calc.windows[i].winEnd

\* ---------------------------------------------------------------------
\* C18: for every schedule and minute the calculator selects at most one
\* slot as current: none when no window contains the minute, otherwise the
\* first slot in ascending time order whose window contains it.
C18_FirstMatchingSlot ==
  Evaluated =>
    /\ calc.current \in 0..Len(calc.windows)
    /\ \A i, j \in 1..Len(CalcSorted) :
         i < j => hhmmToMinutes(CalcSorted[i].hhmm) <= hhmmToMinutes(CalcSorted[j].hhmm)
    /\ calc.current = 0
         => \A i \in 1..Len(calc.windows) : ~InWindow(i, calc.minute)
    /\ calc.current # 0
         => /\ InWindow(calc.current, calc.minute)
            /\ \A i \in 1..(calc.current - 1) : ~InWindow(i, calc.minute)

\* the minute lies in the windows of two slots and the earlier one is current
C18_Witness ==
  /\ Evaluated
  /\ Len(calc.windows) = 2
  /\ InWindow(1, calc.minute)
  /\ InWindow(2, calc.minute)
  /\ calc.current = 1

\* ---------------------------------------------------------------------
\* C19: the windows of a schedule's slots are pairwise disjoint: no minute of
\* the day lies in the windows of two different slots.
C19_WindowsDisjoint ==
  Evaluated =>
    \A i, j \in 1..Len(calc.windows) :
      i # j => \A m \in 0..(MinutesPerDay - 1) : ~(InWindow(i, m) /\ InWindow(j, m))

\* ---------------------------------------------------------------------
\* C20: the window of a slot is [start, min(start + 60, hardStop)) for the
\* three before-meal periods, [start, 1440) for BEFORE_BED and
\* [start, hardStop) for every other period, hardStop being the next slot's
\* start or 1440 for the last slot; the cadence is 30 minutes throughout.
C20_WindowRules ==
  Evaluated =>
    /\ Len(calc.windows) = Len(CalcSorted)
    /\ \A i \in 1..Len(CalcSorted) :
         LET start == CalcSorted[i].hhmm[1] * 60 + CalcSorted[i].hhmm[2]
             hardStop ==
               IF i < Len(CalcSorted)
               THEN CalcSorted[i + 1].hhmm[1] * 60 + CalcSorted[i + 1].hhmm[2]
               ELSE 1440
             period == CalcSorted[i].period
         IN  /\ calc.windows[i].winStart = start
             /\ calc.windows[i].remindEveryMin = 30
             /\ period \in {"BEFORE_BREAKFAST", "BEFORE_LUNCH", "BEFORE_DINNER"}
                  => calc.windows[i].winEnd
                       = (IF start + 60 < hardStop THEN start + 60 ELSE hardStop)
             /\ period = "BEFORE_BED" => calc.windows[i].winEnd = 1440
             /\ period \in {"AFTER_BREAKFAST", "AFTER_LUNCH", "AFTER_DINNER", "CUSTOM"}
                  => calc.windows[i].winEnd = hardStop

\* a before-meal slot whose hour of grace is cut short by the next slot, half
\* an hour later
C20_Witness ==
  /\ Evaluated
  /\ Len(calc.windows) = 2
  /\ CalcSorted[1].period = "BEFORE_LUNCH"
  /\ calc.windows[1].winStart = 420
  /\ calc.windows[1].winEnd = 450


\* the key of today's 07:00 slot of rx4
ScenarioKey == Key("p3", "rx4", ymdToMidnightUTC(StartDay), <<7, 0>>)

\* the instant of the latest NotificationLog row of key k; only read when
\* the key has a row
LatestSentAt(k) ==
  LET rows == {n \in notificationLog : KeyOf(n) = k}
  IN  (CHOOSE n \in rows : \A o \in rows : o.sentAt <= n.sentAt).sentAt

\* run r looks up the latest NotificationLog row of its slot in this step and
\* the lookup returns (a run that ends here returns its summary)
CadenceStep(r) ==
  /\ tick[r].pc = "notif"
  /\ Stepped(r)
  /\ tick'[r].pc = "done" => response'.ret.ok

\* the step puts the run's current slot among its due slots
SlotAdded(r) == Len(tick'[r].dueSlots) = Len(tick[r].dueSlots) + 1

\* ---------------------------------------------------------------------
\* C21 as stated: with a NotificationLog row sent at 07:05 for today's key
\* of the 07:00 before-breakfast slot, a tick at local 07:50 delivers no
\* reminder for that key.
C21_SuppressedAt0750 ==
  [][(pushed' # pushed /\ Reminder(pushed')
        /\ LogAt0705 \in notificationLog
        /\ pushed'.at = LocalToday(7, 50))
     => ScenarioKey \notin pushed'.slots]_vars

\* C21 as amended: the slot is suppressed exactly when the latest row of its
\* key is less than 30 minutes old: with the row of 07:05 alone, a tick
\* before 07:35 suppresses it and a tick at 07:50, 45 minutes after the row,
\* includes it.
C21_CadenceOfScenarioA ==
  [][\A r \in DOMAIN tick :
       (CadenceStep(r) /\ TickKey(tick[r]) = ScenarioKey) =>
         /\ SlotAdded(r) <=>
              \/ \A n \in notificationLog : KeyOf(n) # ScenarioKey
              \/ clock - LatestSentAt(ScenarioKey) >= 30 * 60 * 1000
         /\ ({n \in notificationLog : KeyOf(n) = ScenarioKey} = {LogAt0705}
               /\ clock < LocalToday(7, 35)) => ~SlotAdded(r)
         /\ ({n \in notificationLog : KeyOf(n) = ScenarioKey} = {LogAt0705}
               /\ clock = LocalToday(7, 50)) => SlotAdded(r)]_vars

\* the reminder of the 07:00 slot was delivered at 07:50 with the row of
\* 07:05 the only one of its key
C21_Witness ==
  /\ notificationLog = {LogAt0705}
  /\ Reminder(pushed)
  /\ pushed.at = LocalToday(7, 50)
  /\ ScenarioKey \in pushed.slots


\* ---------------------------------------------------------------------
\* C22: for every schedule and every minute of the day the webhook's window
\* calculation chooses the same current slot and the same windows as the
\* tick's, and both derive the same slot date from the same instant, so both
\* compute the same (date, slot) key.
C22_SameCurrentSlot ==
  Evaluated =>
    /\ calc.currentOfWebhook = calc.current
    /\ Len(calc.windowsOfWebhook) = Len(calc.windows)
    /\ \A i \in 1..Len(calc.windows) :
         /\ calc.windowsOfWebhook[i].winStart = calc.windows[i].winStart
         /\ calc.windowsOfWebhook[i].winEnd = calc.windows[i].winEnd
    /\ \A d \in 0..1, m \in Minutes, tz \in {"Asia/Bangkok", "UTC"} :
         LET now == (StartDay + d) * MsPerDay + m * MsPerMinute
         IN  ymdToMidnightUTC(formatYMDInTz(now, tz))
               = ymdToMidnightUTC(nowInTz(now, tz).ymd)

\* a bedtime slot followed by a later slot, at a minute inside both windows:
\* both calculations choose the bedtime slot
C22_Witness ==
  /\ Evaluated
  /\ Len(calc.windows) = 2
  /\ CalcSorted[1].period = "BEFORE_BED"
  /\ calc.minute >= calc.windows[2].winStart
  /\ calc.currentOfWebhook = 1
  /\ calc.current = 1


\* acknowledgment a sends its reply in this step and LINE accepts it
Replies(a) == ack[a].pc = "reply" /\ replied' # replied /\ replied'.ack = a

\* ---------------------------------------------------------------------
\* C23: when an acknowledgment has recorded a dose of a prescription whose
\* logged pills reach quantityTotal, the inventory of that prescription is
\* inactive by the time the acknowledgment replies, and the reply holds the
\* course-complete notice of that prescription.
C23_CompleteWithinAck ==
  [][\A a \in DOMAIN ack :
       Replies(a) =>
         \A i \in 1..Len(ack[a].takenList) :
           LET rx == ack[a].takenList[i].prescriptionId
           IN  Complete(rx) =>
                 /\ ~invActive[rx]
                 /\ \E j \in 1..Len(replied'.finishedNow) :
                      replied'.finishedNow[j] = rx]_vars


\* ---------------------------------------------------------------------
\* C24: the list an acknowledgment of a linked patient keeps holds exactly
\* the keys of the DoseIntake rows it created, in order; its reply is the
\* nothing-to-record reply exactly when that list is empty, and otherwise the
\* confirmation listing exactly those slots.
C24_ReplyMatchesRecorded ==
  [][\A a \in DOMAIN ack :
       /\ ack'[a] # ack[a] =>
            /\ Cardinality(NewIntakes) <= 1
            /\ NewIntakes # {} => ack[a].pc = "create"
            /\ (NewIntakes = {} /\ ack'[a].pc # "done")
                 => ack'[a].takenList = ack[a].takenList
            /\ \A d \in NewIntakes :
                 /\ d.patientId = ack[a].patient
                 /\ ack'[a].takenList = Append(ack[a].takenList, KeyOf(d))
       /\ (Replies(a) /\ ack[a].patient # "") =>
            /\ replied'.takenList = ack[a].takenList
            /\ replied'.text = "nothing-to-record" <=> ack[a].takenList = <<>>
            /\ replied'.text = "recorded" <=> ack[a].takenList # <<>>]_vars

\* p1 acknowledged at 09:10 or later, when none of its windows is open: no
\* row was created and the reply is the nothing-to-record reply
C24_Witness ==
  /\ clock >= LocalToday(9, 10)
  /\ doseIntake = {}
  /\ replied.to = "U1"
  /\ replied.text = "nothing-to-record"
  /\ replied.takenList = <<>>


\* ---------------------------------------------------------------------
\* C25: a push or a reply that the platform answers with a non-2xx status
\* reports an error to its caller.
C25_FailureSurfaced ==
  \A i \in 1..Len(lineCalls) :
    (lineCalls[i].status # 0 /\ ~resOk(lineCalls[i].status))
      => lineCalls[i].outcome = "threw"


\* ---------------------------------------------------------------------
\* C26: a text event whose trimmed text is not the acknowledgment phrase
\* creates no DoseIntake row and changes no MedicationInventory row, in any
\* of its steps.
EventText(a) == IF ack[a].pc = "idle" THEN ack'[a].msg ELSE ack[a].msg

C26_OtherTextWritesNothing ==
  [][\A a \in Acks :
       (ack'[a] # ack[a] /\ EventText(a) # <<AckPhrase>>)
         => (doseIntake' = doseIntake /\ invActive' = invActive)]_vars

\* the information menu has replied to U1, whose prescription has a
\* quantity to count, and an event whose text holds the acknowledgment phrase
\* followed by another word has returned
C26_Witness ==
  /\ replied.text = "info-menu"
  /\ replied.to = "U1"
  /\ \E a \in Acks : ack[a].pc = "done" /\ ack[a].msg = <<AckPhrase, Blank, "now">>


\* the awaits of the evaluation of one patient
EvalPcs == {"invs", "sum", "deact", "donePush", "taken", "notif"}

\* run r takes a step of processTick that does not throw
Proceeds(r) ==
  /\ Executing(r)
  /\ Stepped(r)
  /\ tick'[r].pc = "done" => response'.ret.ok

\* the step writes the batch of the run's patient: one row per due slot
BatchWritten(r) ==
  /\ tick[r].pc = "log"
  /\ Cardinality(NewRows(r)) = Len(tick[r].dueSlots)

\* the step skips the batch of the run's patient: the delivery failed, or
\* the evaluation ends with nothing due
BatchSkipped(r) ==
  \/ tick[r].pc = "push" /\ pushed' = pushed
  \/ /\ tick[r].pc \in EvalPcs
     /\ tick[r].dueSlots = <<>>
     /\ ~(/\ tick[r].pc = "notif"
          /\ shouldRemind(lastNotif(TickKey(tick[r])), clock,
                          computeWindowForSlot(TickSlot(tick[r]).hhmm,
                                               TickSlot(tick[r]).period,
                                               NoHHMM).remindEveryMin))

\* ---------------------------------------------------------------------
\* C27: within one run the patients are processed strictly one after the
\* other: the run evaluates a patient, then delivers, then writes the log; it
\* goes to the next patient (or returns) only from the step that wrote the
\* batch or skipped it, and the first step for the next patient is that
\* patient's evaluation.
C27_PatientsInSequence ==
  [][\A r \in Ticks :
       Proceeds(r) =>
         /\ tick'[r].pc # "done" => tick'[r].pi \in {tick[r].pi, tick[r].pi + 1}
         /\ (tick'[r].pc # "done" /\ tick'[r].pi = tick[r].pi + 1)
              => /\ tick'[r].pc = "invs"
                 /\ tick[r].pc = "patients" \/ BatchWritten(r) \/ BatchSkipped(r)
         /\ tick'[r].pc = "done"
              => /\ tick[r].pi = Len(env.patients)
                 /\ tick[r].pc = "patients" \/ BatchWritten(r) \/ BatchSkipped(r)
         /\ tick'[r].pc = "push"
              => /\ tick[r].pc \in EvalPcs
                 /\ tick'[r].pi = tick[r].pi
                 /\ tick'[r].dueSlots # <<>>
         /\ tick'[r].pc = "log"
              => /\ tick[r].pc = "push"
                 /\ tick'[r].pi = tick[r].pi
                 /\ pushed' # pushed
         /\ tick'[r].pc \in EvalPcs \ {"invs"}
              => /\ tick[r].pc \in EvalPcs
                 /\ tick'[r].pi = tick[r].pi]_vars

\* a run is at the inventory query of the second patient after it delivered
\* and logged the first patient's reminder
C27_Witness ==
  \E r \in Ticks :
    /\ tick[r].pc = "invs"
    /\ tick[r].pi = 2
    /\ tick[r].users = 1
    /\ \E n \in notificationLog : n.id[1] = r /\ n.patientId = env.patients[1]


\* the NotificationLog rows written by run r so far
RowsOf(r) == {n \in notificationLog : n.id[1] = r}

\* ---------------------------------------------------------------------
\* C28: when a run returns its summary, users is the number of patients for
\* whom the run delivered a reminder and wrote its log rows, items is the
\* number of NotificationLog rows the run wrote, and items >= users; a
\* patient whose delivery failed adds to neither.
C28_SummaryCounts ==
  [][\A r \in Ticks :
       (Returned(r) /\ response'.ret.ok)
         => /\ response'.ret.users
                 = Cardinality({n.patientId : n \in {m \in notificationLog' : m.id[1] = r}})
            /\ response'.ret.items
                 = Cardinality({m \in notificationLog' : m.id[1] = r})
            /\ response'.ret.items >= response'.ret.users]_vars

\* a run returned users 1 and items 2: two slots of one patient delivered
\* and logged, the other patient left out
C28_Witness ==
  /\ response.ret.ok
  /\ response.ret.users = 1
  /\ response.ret.items = 2
  /\ Cardinality(RowsOf(response.tick)) = 2


\* the local calendar day is within the prescription's dates, both ends
\* included: from the day of startDate (else issueDate, else createdAt) to the
\* day of endDate, if it has one
DayInRange(rx, day) ==
  LET start == IF Prescription[rx].startDate # null THEN Prescription[rx].startDate
               ELSE IF Prescription[rx].issueDate # null THEN Prescription[rx].issueDate
               ELSE Prescription[rx].createdAt
  IN  /\ (start + TzOffsetMs(TzOf(rx))) \div MsPerDay <= day
      /\ \/ Prescription[rx].endDate = null
         \/ day <= (Prescription[rx].endDate + TzOffsetMs(TzOf(rx))) \div MsPerDay

LocalDay(rx, now) == (now + TzOffsetMs(TzOf(rx))) \div MsPerDay

\* ---------------------------------------------------------------------
\* C29: no reminder is sent for a prescription for a local date before its
\* effective start date or after its end date, and both bounds are inclusive:
\* every slot of a delivered reminder is of a day within the dates, and a run
\* that evaluates a patient takes up the patient's first prescription (one
\* with a schedule and no quantity) exactly when the local day is within the
\* dates and one of its windows is open.
C29_WithinDates ==
  [][\A r \in Ticks :
       /\ (pushed' # pushed /\ Reminder(pushed') /\ pushed'.run = r)
            => \A k \in pushed'.slots :
                 DayInRange(k.prescriptionId, k.slotDate \div MsPerDay)
       /\ (tick[r].pc = "invs" /\ Proceeds(r)
             /\ ActiveInvs(env.patients[tick[r].pi]) # <<>>)
            => LET rx == ActiveInvs(env.patients[tick[r].pi])[1]
               IN  (Len(schedules(rx)) > 0 /\ Prescription[rx].quantityTotal = null)
                     => ((tick'[r].pc = "taken" /\ tick'[r].ii = 1)
                           <=> (DayInRange(rx, LocalDay(rx, clock))
                                  /\ HasCurrent(rx, clock)))]_vars

\* a reminder of rx6 was delivered on its last day, after the instant of
\* endDate
C29_Witness ==
  /\ Reminder(pushed)
  /\ \E k \in pushed.slots : k.prescriptionId = "rx6"
  /\ pushed.at > Prescription["rx6"].endDate


\* the window of slot i of the sorted schedule
WindowOf(sorted, i) ==
  computeWindowForSlot(sorted[i].hhmm, sorted[i].period,
                       IF i + 1 <= Len(sorted) THEN sorted[i + 1].hhmm ELSE NoHHMM)

\* run r ends the evaluation of its patient in this step
EndsEvaluation(r) ==
  /\ Proceeds(r)
  /\ tick[r].pc \in EvalPcs
  /\ tick'[r].pc \in {"push", "done"} \/ tick'[r].pi # tick[r].pi

\* the instant the run took the time of the prescription it is at
EvalAt(r) == IF tick[r].pc = "invs" THEN clock ELSE tick[r].at

\* the keys of the reminder run r goes on to deliver
DueKeys(r) ==
  IF tick'[r].pc = "push"
  THEN SlotKeys(env.patients[tick[r].pi], tick'[r].dueSlots)
  ELSE {}

\* a NotificationLog row of key k was sent less than the cadence ago
RecentLog(k) ==
  \E n \in notificationLog : KeyOf(n) = k /\ clock - n.sentAt < CadenceMs

\* ---------------------------------------------------------------------
\* C30: the already-taken check and the cadence check are scoped to their
\* key: when a run ends the evaluation of a patient at the patient's last
\* prescription, every slot of that prescription whose window contains the
\* minute, and whose own key has neither a DoseIntake row nor a recent
\* NotificationLog row, is among the slots of the reminder, whatever rows
\* the other keys have.
C30_ChecksKeyScoped ==
  [][\A r \in Ticks :
       (EndsEvaluation(r) /\ tick[r].pc \in {"taken", "notif"})
         => LET rx == TickRx(tick[r])
                now == nowInTz(EvalAt(r), TzOf(rx))
            IN  \A i \in 1..Len(schedules(rx)) :
                  LET k == Key(env.patients[tick[r].pi], rx,
                               ymdToMidnightUTC(now.ymd), schedules(rx)[i].hhmm)
                  IN  (/\ now.minutes >= WindowOf(schedules(rx), i).winStart
                       /\ now.minutes < WindowOf(schedules(rx), i).winEnd
                       /\ ~IntakeExists(k)
                       /\ ~RecentLog(k))
                        => k \in DueKeys(r)]_vars


\* ---------------------------------------------------------------------
\* C31: if every delivery and persistence call of a run eventually returns
\* or throws, every admitted run terminates and the lease eventually returns
\* to idle (again and again a state is reached in which no run is executing
\* and the lease is idle); and an authorized tick that arrives 55 000 ms or more after the
\* start of the run that holds the lease is admitted and takes the lease,
\* although that run has not ended.
C31_TerminationAndValve ==
  /\ []<>(~running /\ \A r \in 1..MaxTicks : tick[r].pc \in {"idle", "done"})
  /\ [][\A r \in 1..MaxTicks :
          (Arrived(r) /\ ~BadSecrets(ArrivingReq(r))
             /\ running /\ clock - startedAt >= MAX_RUN_MS)
            => (tick'[r].pc = "patients" /\ running' /\ startedAt' = clock)]_vars

\* a tick was admitted 55 000 ms after the start of a run that is still
\* suspended on its delivery
C31_Witness ==
  \E r, q \in 1..MaxTicks :
    /\ tick[r].pc = "push"
    /\ tick[q].pc = "patients"
    /\ running
    /\ startedAt = clock
    /\ clock = StartClock + MAX_RUN_MS


\* the activate request c takes a step
ActivateStepped(c) == activate'[c] # activate[c]

\* ---------------------------------------------------------------------
\* C32: over any activate calls, no two patients hold the same lineUserId, a
\* patient's lineUserId once set is never changed to a different value, and
\* an activate call whose lineUserId differs from the one bound to the
\* prescription's patient when the call reaches that patient is rejected and
\* changes no Patient and no MedicationInventory row.
C32_BindingStable ==
  [][/\ \A p, q \in PatientIds :
          (p # q /\ patient'[p].lineUserId # "")
            => patient'[p].lineUserId # patient'[q].lineUserId
     /\ \A p \in PatientIds :
          patient[p].lineUserId # "" => patient'[p].lineUserId = patient[p].lineUserId
     /\ \A c \in Activations :
          (/\ ActivateStepped(c)
           /\ activate[c].pc \in {"find", "bind", "recent"}
           /\ RxOfOpaque(activate[c].opaqueId) # ""
           /\ patient[Prescription[RxOfOpaque(activate[c].opaqueId)].patientId].lineUserId
                \notin {"", activate[c].lineUserId})
            => /\ activate'[c].pc = "done"
               /\ activate'[c].status # 201
               /\ patient' = patient
               /\ invActive' = invActive]_vars


\* ---------------------------------------------------------------------
\* C33: after a stale-lease takeover, the end of the older run does not
\* release the lease of the newer run: when a run returns while a run
\* admitted after it is still executing, running stays true and startedAt
\* stays the newer run's start, so that a tick arriving within 55 000 ms of
\* that start is rejected as busy.
C33_OlderRunKeepsLease ==
  [][\A r \in DOMAIN tick :
       (Returned(r) /\ \E q \in DOMAIN tick : q > r /\ Executing(q))
         => (running' /\ startedAt' = startedAt)]_vars


\* ---------------------------------------------------------------------
\* C34: a tick whose already-taken lookup for a key returns after the
\* DoseIntake row of the key was committed never puts the key's slot in its
\* message, whether or not a NotificationLog row of the key exists: the
\* lookup that finds the row leaves the prescription without a due slot, a
\* run reaches the cadence check of a key only from a lookup of the same key
\* that found no row, a due slot is added only by the cadence check and is
\* the slot of that key, and the message holds exactly the due slots.
C34_TakenLookupSuppresses ==
  [][\A r \in DOMAIN tick :
       /\ (tick[r].pc = "taken" /\ Proceeds(r) /\ IntakeExists(TickKey(tick[r])))
            => /\ tick'[r].pc # "notif"
               /\ tick'[r].dueSlots = tick[r].dueSlots \/ tick'[r].dueSlots = <<>>
       /\ (Stepped(r) /\ tick'[r].pc = "notif")
            => /\ tick[r].pc = "taken"
               /\ ~IntakeExists(TickKey(tick[r]))
               /\ TickKey(tick'[r]) = TickKey(tick[r])
       /\ (Stepped(r) /\ Len(tick'[r].dueSlots) > Len(tick[r].dueSlots))
            => /\ tick[r].pc = "notif"
               /\ tick'[r].dueSlots = Append(tick[r].dueSlots, DueSlot(tick[r]))
       /\ (pushed' # pushed /\ Reminder(pushed') /\ pushed'.run = r)
            => pushed'.slots = SlotKeys(env.patients[tick[r].pi], tick[r].dueSlots)]_vars

\* a run returned with nothing delivered and nothing logged, after an
\* acknowledgment recorded the 07:00 slot of rx3, for which no NotificationLog
\* row exists
C34_Witness ==
  /\ response.ret.ok
  /\ response.ret.users = 0
  /\ pushed = NoMessage
  /\ notificationLog = {}
  /\ \E d \in doseIntake : d.prescriptionId = "rx3" /\ d.hhmm = <<7, 0>>
  /\ replied.text = "recorded"


\* the first slot, in the order of the slot times, whose window contains the
\* minute; 0 when no window does
FirstOpen(rx, minute) ==
  LET open == {i \in 1..Len(schedules(rx)) :
                 /\ minute >= WindowOf(schedules(rx), i).winStart
                 /\ minute < WindowOf(schedules(rx), i).winEnd}
  IN  IF open = {} THEN 0 ELSE CHOOSE i \in open : \A j \in open : i <= j

\* ---------------------------------------------------------------------
\* C35: in one tick at most one slot of a prescription is placed in the
\* message of a patient, and in one acknowledgment at most one DoseIntake row
\* is created per prescription; the row is of the slot that is current when
\* the acknowledgment evaluates the prescription and holds that slot's pills.
C35_OneSlotPerPrescription ==
  [][/\ \A r \in DOMAIN tick :
          /\ (Stepped(r) /\ Len(tick'[r].dueSlots) > Len(tick[r].dueSlots))
               => \A i \in 1..Len(tick[r].dueSlots) :
                    tick[r].dueSlots[i].rxId # TickRx(tick[r])
          /\ (pushed' # pushed /\ Reminder(pushed') /\ pushed'.run = r)
               => \A k1, k2 \in pushed'.slots :
                    k1.prescriptionId = k2.prescriptionId => k1 = k2
     /\ \A a \in DOMAIN ack :
          (ack'[a] # ack[a] /\ NewIntakes # {})
            => /\ Cardinality(NewIntakes) = 1
               /\ \A k \in {ack[a].takenList[i] : i \in 1..Len(ack[a].takenList)} :
                    k.prescriptionId # AckRx(ack[a])
               /\ \A d \in NewIntakes :
                    LET rx == d.prescriptionId
                        cur == FirstOpen(rx, hhmmToMinutes(
                                 formatHHMMInTz(ack[a].at, TzOf(rx))))
                    IN  /\ rx = AckRx(ack[a])
                        /\ cur # 0
                        /\ d.hhmm = schedules(rx)[cur].hhmm
                        /\ d.pills = schedules(rx)[cur].pills]_vars

\* at 22:30, when the windows of both slots of rx5 contain the minute, a
\* reminder with the one slot of 20:00 was delivered and an acknowledgment
\* recorded one row of two pills
C35_Witness ==
  /\ Reminder(pushed)
  /\ Cardinality(pushed.slots) = 1
  /\ pushed.at = LocalToday(22, 30)
  /\ \E d \in doseIntake :
       d.prescriptionId = "rx5" /\ d.pills = 2 /\ d.takenAt = LocalToday(22, 30)
  /\ Cardinality(doseIntake) = 1


\* ---------------------------------------------------------------------
\* C36: DoseIntake is append-only and written only by the acknowledgment:
\* every step keeps the rows it finds, a step that adds a row is the create
\* of an acknowledgment and no step of a tick, so the pills logged for a
\* prescription never decrease and a complete course stays complete.
C36_IntakeAppendOnly ==
  [][/\ doseIntake \subseteq doseIntake'
     /\ doseIntake' # doseIntake
          => /\ \E a \in DOMAIN ack : ack[a].pc = "create" /\ ack'[a] # ack[a]
             /\ tick' = tick
     /\ \A rx \in Rx :
          /\ consumed(rx)' >= consumed(rx)
          /\ Complete(rx) => Complete(rx)']_vars

\* a tick found the course of rx1 complete and switched its inventory off
\* after an acknowledgment recorded its pill, and the row is still there
C36_Witness ==
  /\ Complete("rx1")
  /\ ~invActive["rx1"]
  /\ pushed.kind = "complete"
  /\ pushed.rxId = "rx1"


\* ---------------------------------------------------------------------
\* C37: the tick and the acknowledgment change a MedicationInventory row only
\* from active to inactive, one row in a step, and only the row of the
\* prescription whose course the run or the acknowledgment found complete: a
\* prescription with a quantityTotal whose logged pills have reached it. No
\* step of either re-activates a row.
C37_OnlyDeactivateComplete ==
  [][\A rx \in Rx :
       invActive'[rx] # invActive[rx]
         => /\ invActive[rx]
            /\ ~invActive'[rx]
            /\ \A other \in Rx \ {rx} : invActive'[other] = invActive[other]
            /\ Prescription[rx].quantityTotal # null
            /\ consumed(rx) >= Prescription[rx].quantityTotal
            /\ \/ \E r \in DOMAIN tick :
                    /\ tick[r].pc = "deact"
                    /\ Stepped(r)
                    /\ TickRx(tick[r]) = rx
                    /\ Prescription[rx].patientId = env.patients[tick[r].pi]
               \/ \E a \in DOMAIN ack :
                    /\ ack[a].pc = "deact"
                    /\ ack'[a] # ack[a]
                    /\ AckRx(ack[a]) = rx
                    /\ Prescription[rx].patientId = ack[a].patient]_vars

\* the acknowledgment that recorded the pill of rx1 switched its inventory
\* off and said so in its reply, and rx2, which has no quantity, is active
C37_Witness ==
  /\ ~invActive["rx1"]
  /\ invActive["rx2"]
  /\ replied.finishedNow = <<"rx1">>
  /\ pushed = NoMessage
  /\ \E d \in doseIntake : d.prescriptionId = "rx2"

====
